---- MODULE Spec2Model ----
(***************************************************************************)
(* Model of the APK build service: the BuildQueue scheduler (lib/queue.js), *)
(* the build registry and request handlers of server.js, the executor       *)
(* buildAPK (lib/builder.js) and the persistent counters (lib/stats.js).    *)
(*                                                                          *)
(* Node.js runs every handler to completion between two awaits on I/O, so   *)
(* one action of the model is one such run: from the arrival of a request   *)
(* (or the completion of the I/O a handler awaits) up to the next await on  *)
(* I/O, every microtask continuation included.                              *)
(***************************************************************************)
EXTENDS Integers, Sequences, FiniteSets, TLC

\* ---------------------------------------------------------------- bounds
\* Number of submissions admitted in one run of Spec.
MaxBuilds == 3
\* Number of submissions admitted in one run of SpecAccess.
AccessBuilds == 1
\* Number of submissions admitted in one run of SpecPipeline.
PipeBuilds == 1
\* Builds submitted in SpecLive.
LiveBuilds == 2
\* Builds submitted in SpecAge, and the runs of the cleanup it covers.
AgeBuilds == 1
AgeSweeps == 3
\* Builds submitted in SpecStats.
StatsBuilds == 2
\* The longest second run of characters of a name in SpecName.
NameTail == 2
\* Builds submitted in SpecDeadline.
DeadlineBuilds == 1
\* Builds submitted in SpecExtract.
ExtractBuilds == 1
\* Builds submitted in SpecQueue.
QueueBuilds == 3
\* Builds submitted in SpecRetain.
RetainBuilds == 2
\* Number of submissions admitted in one run of SpecSubmit.
SubmitBuilds == 2
\* Greatest number of records in the registry SpecList starts from.
ListMax == 51
\* Number of tokens getOrCreateApiKey mints in one run of SpecAuth.
MaxTokens == 3
\* Number of writes of the credential file in flight at once in SpecAuth.
MaxWrites == 2

\* --------------------------------------------------- configuration values
\* server.js reads these from the environment; the values are the ones the
\* service is configured with here (MAX_CONCURRENT_BUILDS=1,
\* MAX_QUEUE_SIZE=1, MAX_BUILDS_PER_USER=2).
MAX_CONCURRENT == 1
MAX_QUEUE_SIZE == 1
MAX_BUILDS_PER_USER == 2

\* GET /api/builds answers with at most this many records: slice(0, 50).
LIST_LIMIT == 50

Principals == {"u1", "u2"}
Admin == "admin"
Callers == Principals \cup {Admin}
\* The callers that submit builds in Spec, and in SpecAccess.
Submitters == {"u1"}
AccessSubmitters == {"u1", Admin}
\* The ids requests name: those randomUUID() hands out, and one it never does.
BuildIds == 1..(MaxBuilds + 1)

Terminal == {"complete", "failed", "cancelled"}
NonTerminalStatus == {"queued", "building"}

\* What a submission may carry: "ok" passes every check, each other value
\* names the first check of POST /api/build the request fails.
SubmitInputs ==
  {"ok", "nofile", "notzip", "badjson", "noname", "badpkg", "badtype",
   "badcolor", "emptyname"}

VARIABLES
  builds,          \* the registry: build id -> record (server.js `builds`)
  userBuildCounts, \* userId -> active count; 0 stands for "no entry"
  queue,           \* BuildQueue.queue: build ids of the pending tasks
  running,         \* BuildQueue.running
  tasks,           \* per issued build id: the closure's userId and where the
                   \* submit handler / queued task of that build stands
  addStamp,        \* pending task -> the number of the add() call that
                   \* enqueued it
  lastStamp,       \* the number of the add() call that enqueued the task
                   \* process() started last (0: none yet)
  cancels,         \* the builds whose cancel handler is suspended at
                   \* `await recordBuildCancelled()`
  stats,           \* lib/stats.js `stats` (in memory)
  expired,         \* time: the builds 1..expired were created more than
                   \* maxAge ago (ids are issued in order of creation)
  last,            \* the step just taken: its label, request and response;
                   \* in SpecDeadline, the time buildAPK of each build has
                   \* spent in its awaits so far; in SpecAge, Date.now()
                   \* with the createdAt of each record and the time of
                   \* its last change to a terminal status; in SpecStats,
                   \* the stats file and the writes of it under way
  apiKeys,         \* lib/auth.js `apiKeys`: pubkey -> token, 0 for "no entry"
  apiKeyToPubkey,  \* lib/auth.js `apiKeyToPubkey`: token -> pubkey
  minted,          \* number of tokens randomBytes(32) has produced; the
                   \* tokens are 1, 2, ... and never repeat
  keysFile,        \* the content of API_KEYS_FILE: pubkey -> token, 0 absent
  authWrites,      \* the writeFile calls of saveApiKeys in flight, each with
                   \* the data it carries and the handler that awaits it
  given,           \* per Principal: the tokens answered to the exchanges
                   \* it made since it last revoked
  revoked,         \* per Principal: its tokens revoked since the process
                   \* started
  awaitingMint,    \* the Principals that revoked and made no exchange since
  exec,            \* per build record: the archive and config it was
                   \* submitted with, the await buildAPK stands at, and the
                   \* fields buildAPK writes (progress, apkPath, apkSize)
  workDirs,        \* the builds whose directory under BUILDS_DIR exists
  extracted,       \* the builds whose archive was extracted to its directory
  artifacts,       \* OUTPUT_DIR: build id -> size of <id>.apk
  timers,          \* the builds whose APK deletion timer is pending
  processEnv,      \* the names of the variables of process.env
  spawned          \* the subprocess execAsync started last: [cmd, env]

schedVars ==
  <<builds, userBuildCounts, queue, running, tasks, addStamp, lastStamp>>
authVars ==
  <<apiKeys, apiKeyToPubkey, minted, keysFile, authWrites, given, revoked,
    awaitingMint>>
pipeVars == <<exec, workDirs, extracted, artifacts, timers>>
envVars == <<processEnv, spawned>>
vars == <<schedVars, cancels, stats, expired, last, authVars, pipeVars, envVars>>

\* ------------------------------------------------------------- helpers

Issued == DOMAIN tasks
Present == DOMAIN builds

NoReq(act) ==
  [act |-> act, caller |-> "-", build |-> 0, code |-> 0, status |-> "-", n |-> 0,
   ids |-> {}]

Req(act, c, b, code, st, n) ==
  [act |-> act, caller |-> c, build |-> b, code |-> code, status |-> st, n |-> n,
   ids |-> {}]

\* f without the keys xs (Map.delete)
Remove(f, xs) == [y \in (DOMAIN f) \ xs |-> f[y]]

\* f with x |-> v (Map.set)
Put(f, x, v) == [y \in (DOMAIN f) \cup {x} |-> IF y = x THEN v ELSE f[y]]

\* Number of records of user u that are queued or building.
NonTerminal(bs, u) ==
  Cardinality({b \in DOMAIN bs : bs[b].userId = u /\ bs[b].status \in NonTerminalStatus})

\* authenticate: the identity a valid key resolves to.
authenticate(c) == [isAdmin |-> c = Admin, userId |-> c]

\* checkBuildOwnership without the comparison of build.userId with req.userId.
checkBuildOwnership_NoOwnerCheck(bs, c, b) ==
  IF b \notin DOMAIN bs THEN 404 ELSE 0

\* checkBuildOwnership: 0 when the request goes on to the handler, else the
\* status code of the refusal.
checkBuildOwnership(bs, c, b) ==
  IF b \notin DOMAIN bs THEN 404
  ELSE IF authenticate(c).isAdmin THEN 0
  ELSE IF bs[b].userId # authenticate(c).userId THEN 403
  ELSE 0

\* The decrement both the task wrapper's finally and the cancel handler do:
\* currentCount = get(u) || 1; delete when <= 1, else set(currentCount - 1).
DecrementCount(counts, u) ==
  LET currentCount == IF counts[u] = 0 THEN 1 ELSE counts[u]
  IN [counts EXCEPT ![u] = IF currentCount <= 1 THEN 0 ELSE currentCount - 1]

\* ---------------------------------------------------------- BuildQueue

\* process() without the test of running against maxConcurrent.
CanDispatch_NoLimit(run, q) == Len(q) # 0

\* process(): the guard before a dispatch.
CanDispatch(run, q) == ~(run >= MAX_CONCURRENT \/ Len(q) = 0)

\* pop() in the place of shift(): the pending list served last in, first out.
Shift_Pop(q) == [head |-> q[Len(q)], rest |-> SubSeq(q, 1, Len(q) - 1)]

\* this.queue.shift()
Shift(q) == [head |-> Head(q), rest |-> Tail(q)]

\* process() on the scheduler state s = [running, queue, builds, counts,
\* tasks, stamp, started]. A dispatched task runs the wrapper and buildAPK up to
\* buildAPK's first await: `build.status = 'building'`. When the record is
\* no longer in the registry, `build` is undefined, the assignment throws,
\* the catch block of buildAPK throws again, the wrapper finds no record,
\* its finally decrements the user's count, and process()'s own finally
\* releases the slot and calls process() again, all before any other handler.
RECURSIVE process(_)
process(s) ==
  IF ~CanDispatch(s.running, s.queue) THEN s
  ELSE
    LET sh == Shift(s.queue)
        b == sh.head
        s1 == [s EXCEPT !.running = @ + 1, !.queue = sh.rest,
                        !.stamp = Remove(@, {b}), !.started = s.stamp[b]]
    IN IF b \in DOMAIN s.builds
       THEN [s1 EXCEPT !.builds[b].status = "building",
                       !.tasks[b].pc = "running"]
       ELSE process([s1 EXCEPT !.running = @ - 1,
                               !.counts = DecrementCount(@, s.tasks[b].userId),
                               !.tasks[b].pc = "done"])

\* The number of add() calls made so far: one per submit handler that went
\* past its await.
Added(ts) == Cardinality({b \in DOMAIN ts : ts[b].pc # "awaitStats"})

\* add(task): push, then process().
add(s, b) ==
  LET ts == [s.tasks EXCEPT ![b].pc = "pending"]
  IN process([s EXCEPT !.queue = Append(@, b), !.tasks = ts,
                       !.stamp = Put(@, b, Added(ts))])

\* The finally of process() without its call of process().
release_NoDispatch(s) == [s EXCEPT !.running = @ - 1]

\* The finally of process() after the awaited task settled.
release(s) == process([s EXCEPT !.running = @ - 1])

Sched ==
  [running |-> running, queue |-> queue, builds |-> builds,
   counts |-> userBuildCounts, tasks |-> tasks, stamp |-> addStamp,
   started |-> lastStamp]

SetSched(s) ==
  /\ running' = s.running
  /\ queue' = s.queue
  /\ builds' = s.builds
  /\ userBuildCounts' = s.counts
  /\ tasks' = s.tasks
  /\ addStamp' = s.stamp
  /\ lastStamp' = s.started

\* ------------------------------------------------ the archive's entries

\* The directory of a build, BUILDS_DIR/<buildId>, as path segments.
buildDir == <<"tmp", "builds", "id">>

\* path.join followed by path.normalize on segments: "." is dropped and ".."
\* removes the segment before it (at the root it is dropped).
RECURSIVE Normalize(_, _)
Normalize(done, rest) ==
  IF rest = << >> THEN done
  ELSE IF Head(rest) = ".."
  THEN Normalize(IF done = << >> THEN done ELSE SubSeq(done, 1, Len(done) - 1),
                 Tail(rest))
  ELSE IF Head(rest) = "." THEN Normalize(done, Tail(rest))
  ELSE Normalize(Append(done, Head(rest)), Tail(rest))

\* normalizedPath.startsWith(buildDir + path.sep) || normalizedPath === buildDir
InsideBuildDir(path) ==
  \/ path = buildDir
  \/ Len(path) > Len(buildDir) /\ SubSeq(path, 1, Len(buildDir)) = buildDir

\* Bit k of n: n & 2^k.
Bit(n, k) == (n \div (2 ^ k)) % 2 = 1

\* Limit of the size of one entry: 50 * 1024 * 1024.
MAX_ENTRY_SIZE == 52428800

\* The checks of the validation loop on one entry, in the order of the
\* code. `dos` and `unix` are the low and the high 16 bits of
\* entry.header.attr; `attr & 0x4000` reads bit 14 of the low ones.
EntryError(e) ==
  IF ~InsideBuildDir(Normalize(buildDir, e.entryName)) THEN "traversal"
  ELSE IF e.isDirectory = FALSE /\ Bit(e.dos, 14) THEN "symlink"
  ELSE IF e.size > MAX_ENTRY_SIZE THEN "toolarge"
  ELSE "none"

\* The loop over zip.getEntries(): the error it throws, of the first entry
\* that fails a check.
RECURSIVE ValidationError(_)
ValidationError(entries) ==
  IF entries = << >> THEN "none"
  ELSE IF EntryError(Head(entries)) # "none" THEN EntryError(Head(entries))
  ELSE ValidationError(Tail(entries))

FileEntry(name, size) ==
  [entryName |-> name, isDirectory |-> FALSE, dos |-> 0, unix |-> 33188, size |-> size]

IndexHtml == FileEntry(<<"dist", "index.html">>, 1024)

\* The archives submitted: a built web project; an entry that climbs out of
\* the directory; the same behind a regular entry; an entry with bit 14 of the
\* attributes set; an entry over the size limit; an entry at the limit; an
\* entry stored as a symbolic link (Unix mode 0120777 in the high 16 bits of
\* the attributes); a project without dist/index.html.
Archives ==
  << <<IndexHtml>>,
     <<FileEntry(<<"..", "..", "etc", "passwd">>, 10)>>,
     <<IndexHtml, FileEntry(<<"dist", "..", "..", "x">>, 10)>>,
     <<IndexHtml, [FileEntry(<<"dist", "link">>, 0) EXCEPT !.dos = 16384]>>,
     <<IndexHtml, FileEntry(<<"dist", "big.bin">>, MAX_ENTRY_SIZE + 1)>>,
     <<IndexHtml, FileEntry(<<"dist", ".", "a", "..", "max.bin">>, MAX_ENTRY_SIZE)>>,
     <<IndexHtml, [FileEntry(<<"dist", "link">>, 11) EXCEPT !.unix = 41471]>>,
     <<FileEntry(<<"src", "main.js">>, 10)>> >>

ArchiveIds == 1..Len(Archives)

\* fs.access(dist/index.html) finds the file after the extraction.
HasIndex(entries) ==
  \E i \in 1..Len(entries) :
    Normalize(buildDir, entries[i].entryName) = buildDir \o <<"dist", "index.html">>

\* ---------------------------------------------- the subprocess environment

\* Names of environment variables, letter by letter.
N_PATH == <<"P", "A", "T", "H">>
N_HOME == <<"H", "O", "M", "E">>
N_API_KEY == <<"A", "P", "I", "_", "K", "E", "Y">>
N_NPM_TOKEN == <<"N", "P", "M", "_", "T", "O", "K", "E", "N">>
N_db_password == <<"d", "b", "_", "p", "a", "s", "s", "w", "o", "r", "d">>
N_Private_Dir == <<"P", "r", "i", "v", "a", "t", "e", "_", "D", "i", "r">>
N_JAVA_HOME == <<"J", "A", "V", "A", "_", "H", "O", "M", "E">>
N_ANDROID_HOME == <<"A", "N", "D", "R", "O", "I", "D", "_", "H", "O", "M", "E">>
N_ANDROID_SDK_ROOT ==
  <<"A", "N", "D", "R", "O", "I", "D", "_", "S", "D", "K", "_", "R", "O", "O", "T">>

\* The variables process.env may hold. API_KEY is the one server.js reads
\* the Admin key from.
EnvNames == {N_PATH, N_HOME, N_API_KEY, N_NPM_TOKEN, N_db_password, N_Private_Dir}

LowerCase ==
  <<"a", "b", "c", "d", "e", "f", "g", "h", "i", "j", "k", "l", "m",
    "n", "o", "p", "q", "r", "s", "t", "u", "v", "w", "x", "y", "z">>
UpperCase ==
  <<"A", "B", "C", "D", "E", "F", "G", "H", "I", "J", "K", "L", "M",
    "N", "O", "P", "Q", "R", "S", "T", "U", "V", "W", "X", "Y", "Z">>

\* key.toUpperCase()
toUpperCase(key) ==
  [i \in 1..Len(key) |->
     IF \E j \in 1..Len(LowerCase) : LowerCase[j] = key[i]
     THEN UpperCase[CHOOSE j \in 1..Len(LowerCase) : LowerCase[j] = key[i]]
     ELSE key[i]]

\* str.includes(sub)
includes(str, sub) ==
  \E i \in 1..(Len(str) - Len(sub) + 1) : SubSeq(str, i, i + Len(sub) - 1) = sub

\* The deny list of buildAPK.
DenyList ==
  {N_API_KEY,
   <<"A", "D", "M", "I", "N", "_", "A", "P", "I", "_", "K", "E", "Y">>,
   <<"S", "E", "C", "R", "E", "T">>,
   <<"P", "A", "S", "S", "W", "O", "R", "D">>,
   <<"T", "O", "K", "E", "N">>,
   <<"P", "R", "I", "V", "A", "T", "E">>}

\* The name matches the deny list.
Denied(key) == \E secret \in DenyList : includes(toUpperCase(key), secret)

\* safeEnv: process.env without the names that match the deny list.
safeEnv(env) == {key \in env : ~Denied(key)}

\* The commands buildAPK runs with execAsync.
Commands == {"npmInit", "npmInstall", "capAdd", "capSync", "chmod", "gradle"}

\* The environment the subprocess of cmd receives: gradle is given safeEnv
\* and the three Android variables; the other calls pass no `env` option, so
\* the child inherits process.env.
SpawnEnv(cmd, env) ==
  IF cmd = "gradle"
  THEN safeEnv(env) \cup {N_JAVA_HOME, N_ANDROID_HOME, N_ANDROID_SDK_ROOT}
  ELSE env

NoSpawn == [cmd |-> "-", env |-> {}]

\* --------------------------------------------------------------- Init

\* No build yet: the directories are empty and no timer is pending.
InitPipeVars ==
  /\ exec = << >>
  /\ workDirs = {}
  /\ extracted = {}
  /\ artifacts = << >>
  /\ timers = {}

\* The service started with PATH, HOME and the Admin key in API_KEY.
InitEnvVars ==
  /\ processEnv = {N_PATH, N_HOME, N_API_KEY}
  /\ spawned = NoSpawn

\* lib/auth.js before initAuth, with no credential file on disk.
InitAuthVars ==
  /\ apiKeys = [p \in Principals |-> 0]
  /\ apiKeyToPubkey = << >>
  /\ minted = 0
  /\ keysFile = [p \in Principals |-> 0]
  /\ authWrites = {}
  /\ given = [p \in Principals |-> {}]
  /\ revoked = [p \in Principals |-> {}]
  /\ awaitingMint = {}

InitBuildVars ==
  /\ builds = << >>
  /\ userBuildCounts = [u \in Callers |-> 0]
  /\ queue = << >>
  /\ running = 0
  /\ tasks = << >>
  /\ addStamp = << >>
  /\ lastStamp = 0
  /\ cancels = {}
  /\ stats = [totalBuilds |-> 0, cancelledBuilds |-> 0,
                 successfulBuilds |-> 0, failedBuilds |-> 0]
  /\ expired = 0
  /\ last = NoReq("Init")

Init ==
  /\ InitBuildVars
  /\ InitAuthVars
  /\ InitPipeVars
  /\ InitEnvVars

\* ------------------------------------------------- POST /api/build

\* queueStatus.queued >= MAX_QUEUE_SIZE
QueueFull(q) == Len(q) >= MAX_QUEUE_SIZE

\* userActiveBuilds >= MAX_BUILDS_PER_USER
UserAtLimit(counts, u) == counts[u] >= MAX_BUILDS_PER_USER

\* The checks of the handler in the order the code makes them: the status
\* code of the first one that refuses the request, 0 when all pass.
SubmitCode(c, inp) ==
  IF inp \in {"nofile", "notzip"} THEN 400
  ELSE IF QueueFull(queue) THEN 503
  ELSE IF UserAtLimit(userBuildCounts, authenticate(c).userId) THEN 429
  ELSE IF inp # "ok" THEN 400
  ELSE 0

\* What the request is answered before the handler first awaits: a refusal
\* with queueSize (503) or activeBuilds (429), or nothing yet (code 0).
SubmitReply(c, inp) ==
  LET code == SubmitCode(c, inp)
  IN IF code = 503 THEN Req("Submit", c, 0, 503, "-", Len(queue))
     ELSE IF code = 429
     THEN Req("Submit", c, 0, 429, "-", userBuildCounts[authenticate(c).userId])
     ELSE IF code # 0 THEN Req("Submit", c, 0, code, "-", 0)
     ELSE Req("Submit", c, Cardinality(Issued) + 1, 0, "-", 0)

\* The handler counting the build for the user before it validates the
\* config.
Submit_CountBeforeConfig(c, inp) ==
  LET u == authenticate(c).userId
      id == Cardinality(Issued) + 1
  IN IF SubmitCode(c, inp) = 400 /\ inp \notin {"nofile", "notzip"}
     THEN /\ userBuildCounts' = [userBuildCounts EXCEPT ![u] = @ + 1]
          /\ UNCHANGED <<builds, queue, running, tasks, addStamp, lastStamp,
                         cancels, stats, expired>>
     ELSE IF SubmitCode(c, inp) # 0
     THEN UNCHANGED <<schedVars, cancels, stats, expired>>
     ELSE /\ builds' = Put(builds, id, [userId |-> u, status |-> "queued"])
          /\ userBuildCounts' = [userBuildCounts EXCEPT ![u] = @ + 1]
          /\ stats' = [stats EXCEPT !.totalBuilds = @ + 1]
          /\ tasks' = Put(tasks, id, [userId |-> u, pc |-> "awaitStats"])
          /\ UNCHANGED <<queue, running, addStamp, lastStamp, cancels, expired>>

\* A request arrives and runs up to `await recordBuildSubmitted()`: either a
\* refusal, or the record is created, the user's count incremented and
\* stats.totalBuilds incremented; the handler then waits for the write of
\* the counters.
Submit(c, inp) ==
  LET u == authenticate(c).userId
      id == Cardinality(Issued) + 1
  IN IF SubmitCode(c, inp) # 0
     THEN UNCHANGED <<schedVars, cancels, stats, expired>>
     ELSE /\ builds' = Put(builds, id, [userId |-> u, status |-> "queued"])
          /\ userBuildCounts' = [userBuildCounts EXCEPT ![u] = @ + 1]
          /\ stats' = [stats EXCEPT !.totalBuilds = @ + 1]
          /\ tasks' = Put(tasks, id, [userId |-> u, pc |-> "awaitStats"])
          /\ UNCHANGED <<queue, running, addStamp, lastStamp, cancels, expired>>

\* The write of the counters completed: the handler goes on to queue.add()
\* and answers 200 {buildId, status: 'queued'}.
SubmitResume(b) ==
  /\ b \in Issued
  /\ tasks[b].pc = "awaitStats"
  /\ SetSched(add(Sched, b))
  /\ UNCHANGED <<cancels, stats, expired>>

SubmitResumeReply(b) == Req("SubmitResume", tasks[b].userId, b, 200, "queued", 0)

\* ------------------------------------------- DELETE /api/build/:buildId

\* The cancel handler also taking a build in progress.
Cancellable_AlsoBuilding(status) == status \in {"queued", "building"}

\* build.status === 'queued'
Cancellable(status) == status = "queued"

\* What the request is answered before the handler first awaits: the
\* refusal of checkBuildOwnership, 400 with the record's status, or nothing
\* yet (code 0).
CancelReply(c, b) ==
  LET code == checkBuildOwnership(builds, c, b)
  IN IF code # 0 THEN Req("Cancel", c, b, code, "-", 0)
     ELSE IF Cancellable(builds[b].status) THEN Req("Cancel", c, b, 0, "-", 0)
     ELSE Req("Cancel", c, b, 400, builds[b].status, 0)

\* The request runs up to `await recordBuildCancelled()`.
Cancel(c, b) ==
  IF checkBuildOwnership(builds, c, b) = 0 /\ Cancellable(builds[b].status)
  THEN /\ builds' = [builds EXCEPT ![b].status = "cancelled"]
       /\ userBuildCounts' = DecrementCount(userBuildCounts, builds[b].userId)
       /\ stats' = [stats EXCEPT !.cancelledBuilds = @ + 1]
       /\ cancels' = cancels \cup {b}
       /\ UNCHANGED <<queue, running, tasks, addStamp, lastStamp, expired>>
  ELSE UNCHANGED <<schedVars, cancels, stats, expired>>

\* The write of the counters completed: 200 {message: 'Build cancelled'}.
CancelResume(b) ==
  /\ b \in cancels
  /\ cancels' = cancels \ {b}
  /\ UNCHANGED <<schedVars, stats, expired>>

CancelResumeReply(b) == Req("CancelResume", "-", b, 200, "-", 0)

\* ------------------------------------------------------ read handlers

\* The download handler without the test of build.status.
DownloadReply_AnyStatus(c, b) ==
  LET code == checkBuildOwnership(builds, c, b)
  IN IF code # 0 THEN Req("Download", c, b, code, "-", 0)
     ELSE Req("Download", c, b, 200, builds[b].status, 0)

\* GET /api/build/:buildId/status and GET /api/build/:buildId/logs answer
\* with fields of the record, its status among them.
ReadReply(act, c, b) ==
  LET code == checkBuildOwnership(builds, c, b)
  IN IF code # 0 THEN Req(act, c, b, code, "-", 0)
     ELSE Req(act, c, b, 200, builds[b].status, 0)

\* GET /api/build/:buildId/download
DownloadReply(c, b) ==
  LET code == checkBuildOwnership(builds, c, b)
  IN IF code # 0 THEN Req("Download", c, b, code, "-", 0)
     ELSE IF builds[b].status # "complete"
     THEN Req("Download", c, b, 400, builds[b].status, 0)
     ELSE Req("Download", c, b, 200, "complete", 0)

Status(c, b) ==
  /\ last' = ReadReply("Status", c, b)
  /\ UNCHANGED <<schedVars, cancels, stats, expired>>

Logs(c, b) ==
  /\ last' = ReadReply("Logs", c, b)
  /\ UNCHANGED <<schedVars, cancels, stats, expired>>

Download(c, b) ==
  /\ last' = DownloadReply(c, b)
  /\ UNCHANGED <<schedVars, cancels, stats, expired>>

\* GET /api/builds: the ids of the records in the answer. Ids are issued in
\* the order of createdAt, so the sort puts the greatest id first, and
\* slice(0, 50) keeps the LIST_LIMIT greatest.
Listed(bs, c) ==
  LET buildList == IF authenticate(c).isAdmin THEN DOMAIN bs
                   ELSE {b \in DOMAIN bs : bs[b].userId = authenticate(c).userId}
  IN {b \in buildList : Cardinality({x \in buildList : x > b}) < LIST_LIMIT}

ListReply(c) == [Req("List", c, 0, 200, "-", 0) EXCEPT !.ids = Listed(builds, c)]

List(c) ==
  /\ last' = ListReply(c)
  /\ UNCHANGED <<schedVars, cancels, stats, expired>>

\* ------------------------------------------------------ the executor

\* Every stage of buildAPK succeeded: status = 'complete'; the wrapper's
\* finally decrements the user's count; process() releases the slot and
\* dispatches the next pending task.
BuildComplete(b) ==
  /\ b \in Issued
  /\ tasks[b].pc = "running"
  /\ SetSched(release(
       [Sched EXCEPT !.builds = IF b \in DOMAIN @
                                THEN [@ EXCEPT ![b].status = "complete"] ELSE @,
                     !.counts = DecrementCount(@, tasks[b].userId),
                     !.tasks[b].pc = "done"]))
  /\ UNCHANGED <<cancels, stats, expired>>

\* A stage failed or timed out: the catch block of buildAPK sets
\* status = 'failed' and awaits the removal of the working directory.
BuildFail(b) ==
  /\ b \in Issued
  /\ tasks[b].pc = "running"
  /\ builds' = IF b \in Present
               THEN [builds EXCEPT ![b].status = "failed"] ELSE builds
  /\ tasks' = [tasks EXCEPT ![b].pc = "failCleanup"]
  /\ UNCHANGED <<userBuildCounts, queue, running, addStamp, lastStamp, cancels,
                 stats, expired>>

\* The end of a failed build with an automatic retry: the task is handed
\* to add() again.
FailCleanupDone_Retries(b) ==
  /\ b \in Issued
  /\ tasks[b].pc = "failCleanup"
  /\ SetSched(add(release(
       [Sched EXCEPT !.counts = DecrementCount(@, tasks[b].userId),
                     !.tasks[b].pc = "done"]), b))
  /\ UNCHANGED <<cancels, stats, expired>>

\* The working directory is removed and buildAPK rethrows: the wrapper's
\* catch marks the record failed unless it already is, its finally
\* decrements the user's count, and process() releases the slot.
FailCleanupDone(b) ==
  /\ b \in Issued
  /\ tasks[b].pc = "failCleanup"
  /\ SetSched(release(
       [Sched EXCEPT !.builds = IF b \in DOMAIN @ /\ @[b].status # "failed"
                                THEN [@ EXCEPT ![b].status = "failed"] ELSE @,
                     !.counts = DecrementCount(@, tasks[b].userId),
                     !.tasks[b].pc = "done"]))
  /\ UNCHANGED <<cancels, stats, expired>>

\* ------------------------------------------------- the periodic cleanup

\* age > maxAge
Aged(b) == b <= expired

\* The cleanup without the test of the status.
Swept_AnyStatus(bs) == {b \in DOMAIN bs : Aged(b)}

\* The records one run of the cleanup deletes.
Swept(bs) == {b \in DOMAIN bs : Aged(b) /\ bs[b].status \in Terminal}

Sweep ==
  /\ builds' = Remove(builds, Swept(builds))
  /\ UNCHANGED <<userBuildCounts, queue, running, tasks, addStamp, lastStamp,
                 cancels, stats, expired>>

\* Time passes: the oldest build not yet older than maxAge becomes so.
Elapse ==
  /\ expired < Cardinality(Issued)
  /\ expired' = expired + 1
  /\ UNCHANGED <<schedVars, cancels, stats>>

\* --------------------------------------------------------- lib/auth.js

\* The key of the X-API-Key header: 0 is ADMIN_API_KEY, the others are the
\* tokens getOrCreateApiKey hands out.
AdminKey == 0
Tokens == 1..MaxTokens
AuthKeys == {AdminKey} \cup Tokens

\* validateApiKey(apiKey), without its save.
validateApiKey(keyToPub, t) ==
  IF t \in DOMAIN keyToPub THEN [valid |-> TRUE, pubkey |-> keyToPub[t]]
  ELSE [valid |-> FALSE, pubkey |-> "-"]

\* saveApiKeys(): Object.fromEntries(apiKeys) is taken and serialised when
\* the call is made; the write completes later. `kind` names the handler
\* that issued it, p and token what an exchange will answer, and stale
\* whether p revoked after the exchange was made.
Save(keys, kind, p, token, isNew) ==
  [snap |-> keys, kind |-> kind, p |-> p, token |-> token, isNew |-> isNew,
   stale |-> FALSE]

\* The save validateApiKey starts and leaves: nobody awaits it.
SaveOfValidate(keys) == Save(keys, "validate", "-", 0, FALSE)

\* POST /api/auth with a valid NIP-98 header of p runs getOrCreateApiKey(p)
\* up to `await saveApiKeys()`.
Exchange(p) ==
  /\ Cardinality(authWrites) < MaxWrites
  /\ IF apiKeys[p] # 0
     THEN /\ authWrites' =
               authWrites \cup {Save(apiKeys, "exchange", p, apiKeys[p], FALSE)}
          /\ last' = Req("Exchange", p, 0, 0, "existing", apiKeys[p])
          /\ UNCHANGED <<apiKeys, apiKeyToPubkey, minted>>
     ELSE /\ minted < MaxTokens
          /\ minted' = minted + 1
          /\ apiKeys' = [apiKeys EXCEPT ![p] = minted + 1]
          /\ apiKeyToPubkey' = Put(apiKeyToPubkey, minted + 1, p)
          /\ authWrites' =
               authWrites \cup {Save(apiKeys', "exchange", p, minted + 1, TRUE)}
          /\ last' = Req("Exchange", p, 0, 0, "new", minted + 1)
  /\ awaitingMint' = awaitingMint \ {p}
  /\ UNCHANGED <<pipeVars, envVars, schedVars, cancels, stats, expired, keysFile, given, revoked>>

\* A request with key t on a route behind authenticate (other than
\* DELETE /api/auth): 401 for an unknown key; for a Principal's token
\* validateApiKey starts a save.
Use(t) ==
  IF t = AdminKey
  THEN /\ last' = Req("Use", Admin, 0, 200, "-", 0)
       /\ UNCHANGED <<pipeVars, envVars, schedVars, cancels, stats, expired, authVars>>
  ELSE IF ~validateApiKey(apiKeyToPubkey, t).valid
  THEN /\ last' = Req("Use", "-", 0, 401, "-", 0)
       /\ UNCHANGED <<pipeVars, envVars, schedVars, cancels, stats, expired, authVars>>
  ELSE /\ Cardinality(authWrites) < MaxWrites
       /\ authWrites' = authWrites \cup {SaveOfValidate(apiKeys)}
       /\ last' = Req("Use", validateApiKey(apiKeyToPubkey, t).pubkey, 0, 200, "-", 0)
       /\ UNCHANGED <<pipeVars, envVars, schedVars, cancels, stats, expired, apiKeys, apiKeyToPubkey,
                      minted, keysFile, given, revoked, awaitingMint>>

\* revokeApiKey leaving the token in apiKeyToPubkey.
revokeApiKey_KeepsToken(keys, keyToPub, p) ==
  [keys |-> [keys EXCEPT ![p] = 0], keyToPub |-> keyToPub]

\* revokeApiKey(pubkey), for a pubkey that has an entry: the two deletes.
revokeApiKey(keys, keyToPub, p) ==
  [keys |-> [keys EXCEPT ![p] = 0], keyToPub |-> Remove(keyToPub, {keys[p]})]

\* The exchanges of p in flight were made before p revoked.
Outdated(ws, p) ==
  {IF w.kind = "exchange" /\ w.p = p THEN [w EXCEPT !.stale = TRUE] ELSE w : w \in ws}

\* DELETE /api/auth with key t: authenticate (and the save validateApiKey
\* starts), then revokeApiKey(req.pubkey) up to `await saveApiKeys()`.
Revoke(t) ==
  IF t = AdminKey
  THEN /\ last' = Req("Revoke", Admin, 0, 400, "-", 0)
       /\ UNCHANGED <<pipeVars, envVars, schedVars, cancels, stats, expired, authVars>>
  ELSE IF ~validateApiKey(apiKeyToPubkey, t).valid
  THEN /\ last' = Req("Revoke", "-", 0, 401, "-", 0)
       /\ UNCHANGED <<pipeVars, envVars, schedVars, cancels, stats, expired, authVars>>
  ELSE LET p == validateApiKey(apiKeyToPubkey, t).pubkey
       IN /\ Cardinality(authWrites) + 1 < MaxWrites
          /\ apiKeyToPubkey' = revokeApiKey(apiKeys, apiKeyToPubkey, p).keyToPub
          /\ apiKeys' = revokeApiKey(apiKeys, apiKeyToPubkey, p).keys
          /\ authWrites' =
               Outdated(authWrites, p)
                 \cup {SaveOfValidate(apiKeys), Save(apiKeys', "revoke", p, 0, FALSE)}
          /\ revoked' = [revoked EXCEPT ![p] = @ \cup {apiKeys[p]}]
          /\ given' = [given EXCEPT ![p] = {}]
          /\ awaitingMint' = awaitingMint \cup {p}
          /\ last' = Req("Revoke", p, 0, 0, "-", 0)
          /\ UNCHANGED <<pipeVars, envVars, schedVars, cancels, stats, expired, minted, keysFile>>

\* A write of the credential file completes: the file holds the data the
\* write carried, and the handler awaiting it answers.
WriteDone(w) ==
  /\ w \in authWrites
  /\ authWrites' = authWrites \ {w}
  /\ keysFile' = w.snap
  /\ given' = IF w.kind = "exchange" /\ ~w.stale
              THEN [given EXCEPT ![w.p] = @ \cup {w.token}] ELSE given
  /\ last' = IF w.kind = "exchange"
             THEN Req("ExchangeReply", w.p, 0, 200,
                      IF w.isNew THEN "new" ELSE "existing", w.token)
             ELSE IF w.kind = "revoke" THEN Req("RevokeReply", w.p, 0, 200, "-", 0)
             ELSE NoReq("WriteDone")
  /\ UNCHANGED <<pipeVars, envVars, schedVars, cancels, stats, expired, apiKeys, apiKeyToPubkey,
                 minted, revoked, awaitingMint>>

\* initAuth: the maps as loaded from the credential file.
Loaded(file) ==
  [keys |-> file,
   keyToPub |-> [t \in {file[p] : p \in Principals} \ {0} |->
                   CHOOSE p \in Principals : file[p] = t]]

\* The process stops (the writes in flight are lost) and starts again:
\* start() awaits initAuth before it listens.
Restart ==
  /\ apiKeys' = Loaded(keysFile).keys
  /\ apiKeyToPubkey' = Loaded(keysFile).keyToPub
  /\ authWrites' = {}
  /\ revoked' = [p \in Principals |-> {}]
  /\ awaitingMint' = {}
  /\ last' = NoReq("Restart")
  /\ UNCHANGED <<pipeVars, envVars, schedVars, cancels, stats, expired, minted, keysFile, given>>

NextAuth ==
  \/ \E p \in Principals : Exchange(p)
  \/ \E t \in AuthKeys : Use(t)
  \/ \E t \in AuthKeys : Revoke(t)
  \/ \E w \in authWrites : WriteDone(w)
  \/ Restart

SpecAuth == Init /\ [][NextAuth]_vars

\* ------------------------------------------- buildAPK, await by await

\* The awaits of buildAPK with the working directory removed before the
\* APK is copied.
Stages_RemoveBeforeCopy ==
  << [name |-> "mkdirBuild",  progress |-> 5,  cmd |-> FALSE],
     [name |-> "mkdirOutput", progress |-> 0,  cmd |-> FALSE],
     [name |-> "access",      progress |-> 10, cmd |-> FALSE],
     [name |-> "countFiles",  progress |-> 0,  cmd |-> FALSE],
     [name |-> "npmInit",     progress |-> 15, cmd |-> TRUE],
     [name |-> "npmInstall",  progress |-> 20, cmd |-> TRUE],
     [name |-> "writeConfig", progress |-> 30, cmd |-> FALSE],
     [name |-> "capAdd",      progress |-> 40, cmd |-> TRUE],
     [name |-> "capSync",     progress |-> 50, cmd |-> TRUE],
     [name |-> "shim",        progress |-> 52, cmd |-> FALSE],
     [name |-> "icon",        progress |-> 55, cmd |-> FALSE],
     [name |-> "colors",      progress |-> 57, cmd |-> FALSE],
     [name |-> "chmod",       progress |-> 0,  cmd |-> TRUE],
     [name |-> "gradle",      progress |-> 60, cmd |-> TRUE],
     [name |-> "readdir",     progress |-> 90, cmd |-> FALSE],
     [name |-> "rmBuildDir",  progress |-> 95, cmd |-> FALSE],
     [name |-> "copyFile",    progress |-> 0,  cmd |-> FALSE],
     [name |-> "stat",        progress |-> 0,  cmd |-> FALSE] >>

\* The awaits of buildAPK in order. `progress` is the value build.progress
\* is given on the way to the await (0: it is left as it is) and `cmd` tells
\* whether the await is on execAsync.
Stages ==
  << [name |-> "mkdirBuild",  progress |-> 5,  cmd |-> FALSE],
     [name |-> "mkdirOutput", progress |-> 0,  cmd |-> FALSE],
     [name |-> "access",      progress |-> 10, cmd |-> FALSE],
     [name |-> "countFiles",  progress |-> 0,  cmd |-> FALSE],
     [name |-> "npmInit",     progress |-> 15, cmd |-> TRUE],
     [name |-> "npmInstall",  progress |-> 20, cmd |-> TRUE],
     [name |-> "writeConfig", progress |-> 30, cmd |-> FALSE],
     [name |-> "capAdd",      progress |-> 40, cmd |-> TRUE],
     [name |-> "capSync",     progress |-> 50, cmd |-> TRUE],
     [name |-> "shim",        progress |-> 52, cmd |-> FALSE],
     [name |-> "icon",        progress |-> 55, cmd |-> FALSE],
     [name |-> "colors",      progress |-> 57, cmd |-> FALSE],
     [name |-> "chmod",       progress |-> 0,  cmd |-> TRUE],
     [name |-> "gradle",      progress |-> 60, cmd |-> TRUE],
     [name |-> "readdir",     progress |-> 90, cmd |-> FALSE],
     [name |-> "copyFile",    progress |-> 0,  cmd |-> FALSE],
     [name |-> "stat",        progress |-> 0,  cmd |-> FALSE],
     [name |-> "rmBuildDir",  progress |-> 95, cmd |-> FALSE] >>

\* The await after await k: updateAppColors is awaited only when the config
\* has a primaryColor.
NextStage(k, color) ==
  IF Stages[k + 1].name = "colors" /\ ~color THEN k + 2 ELSE k + 1

\* The size of the APK gradle produces for build b.
ApkSize(b) == 1000 + b

\* What POST /api/build stores for the build: the archive (req.file.buffer)
\* and whether the config has a primaryColor; the record's progress. stage
\* is the await buildAPK stands at (0: not started), size what fs.stat
\* returned; cancelled and failed remember that a cancel succeeded and that
\* an await or the validation threw.
NewExec(a, color) ==
  [archive |-> a, color |-> color, stage |-> 0, progress |-> 0, size |-> 0,
   apkPath |-> FALSE, apkSize |-> 0, cancelled |-> FALSE, failed |-> FALSE]

\* The update of the record at the end of buildAPK, without the progress.
Completed_KeepsProgress(x) == [x EXCEPT !.apkPath = TRUE, !.apkSize = x.size]

\* The update of the record at the end of buildAPK: progress = 100,
\* apkPath = outputPath, apkSize = stats.size.
Completed(x) == [x EXCEPT !.progress = 100, !.apkPath = TRUE, !.apkSize = x.size]

\* buildAPK of the tasks process() started in this step runs up to its
\* first await: progress = 5, then `await fs.mkdir(buildDir)`.
Dispatched(ex) ==
  [b \in DOMAIN ex |->
     IF tasks'[b].pc = "running" /\ tasks[b].pc # "running"
     THEN [ex[b] EXCEPT !.stage = 1, !.progress = Stages[1].progress]
     ELSE ex[b]]

\* POST /api/build with archive a, up to `await recordBuildSubmitted()`.
PSubmit(c, a, color) ==
  /\ SubmitCode(c, "ok") = 0
  /\ Submit(c, "ok")
  /\ exec' = Put(exec, Cardinality(Issued) + 1, NewExec(a, color))
  /\ UNCHANGED <<workDirs, extracted, artifacts, timers, envVars>>

PSubmitResume(b) ==
  /\ SubmitResume(b)
  /\ exec' = Dispatched(exec)
  /\ UNCHANGED <<workDirs, extracted, artifacts, timers, envVars>>

PCancel(c, b) ==
  /\ Cancel(c, b)
  /\ exec' = IF checkBuildOwnership(builds, c, b) = 0 /\ Cancellable(builds[b].status)
             THEN [exec EXCEPT ![b].cancelled = TRUE] ELSE exec
  /\ UNCHANGED <<workDirs, extracted, artifacts, timers, envVars>>

\* The await buildAPK of build b stands at settles without an error, and
\* buildAPK runs on to its next await or to its end.
StageDone(b) ==
  /\ b \in Issued
  /\ tasks[b].pc = "running"
  /\ LET k == exec[b].stage
         name == Stages[k].name
         entries == Archives[exec[b].archive]
         next == NextStage(k, exec[b].color)
     IN /\ name = "access" => HasIndex(entries)
        /\ workDirs' = IF name = "mkdirBuild" THEN workDirs \cup {b}
                       ELSE IF name = "rmBuildDir" THEN workDirs \ {b}
                       ELSE workDirs
        /\ artifacts' = IF name = "copyFile" THEN Put(artifacts, b, ApkSize(b))
                        ELSE artifacts
        /\ IF name = "mkdirOutput"
           THEN \* progress = 10, the validation loop, zip.extractAllTo
                IF ValidationError(entries) # "none"
                THEN /\ BuildFail(b)
                     /\ exec' = [exec EXCEPT ![b].progress = Stages[next].progress,
                                             ![b].failed = TRUE]
                     /\ UNCHANGED <<extracted, timers, spawned>>
                ELSE /\ exec' = [exec EXCEPT ![b].progress = Stages[next].progress,
                                             ![b].stage = next]
                     /\ extracted' = extracted \cup {b}
                     /\ UNCHANGED <<schedVars, cancels, stats, expired, timers, spawned>>
           ELSE IF name = "rmBuildDir"
           THEN \* status = 'complete', the timer, the end of the task
                /\ BuildComplete(b)
                /\ exec' = Dispatched([exec EXCEPT ![b] = Completed(@)])
                /\ timers' = timers \cup {b}
                /\ extracted' = extracted \ {b}
                /\ UNCHANGED spawned
           ELSE /\ exec' = [exec EXCEPT
                              ![b].stage = next,
                              ![b].size = IF name = "stat" THEN artifacts[b] ELSE @,
                              ![b].progress = IF Stages[next].progress # 0
                                              THEN Stages[next].progress ELSE @]
                /\ spawned' = IF Stages[next].cmd
                              THEN [cmd |-> Stages[next].name,
                                    env |-> SpawnEnv(Stages[next].name, processEnv)]
                              ELSE spawned
                /\ UNCHANGED <<schedVars, cancels, stats, expired, extracted, timers>>
  /\ UNCHANGED processEnv

\* The catch block of buildAPK also putting the progress back to 0.
StageFail_ResetsProgress(b) ==
  /\ b \in Issued
  /\ tasks[b].pc = "running"
  /\ BuildFail(b)
  /\ exec' = [exec EXCEPT ![b].failed = TRUE, ![b].progress = 0]
  /\ UNCHANGED <<workDirs, extracted, artifacts, timers, envVars>>

\* The await buildAPK of build b stands at rejects (an error of the file
\* system, a command that fails or runs into its timeout): the catch block.
StageFail(b) ==
  /\ b \in Issued
  /\ tasks[b].pc = "running"
  /\ BuildFail(b)
  /\ exec' = [exec EXCEPT ![b].failed = TRUE]
  /\ UNCHANGED <<workDirs, extracted, artifacts, timers, envVars>>

\* fs.rm(buildDir) of the catch block settles and buildAPK rethrows.
PFailCleanupDone(b) ==
  /\ FailCleanupDone(b)
  /\ workDirs' = workDirs \ {b}
  /\ extracted' = extracted \ {b}
  /\ exec' = Dispatched(exec)
  /\ UNCHANGED <<artifacts, timers, envVars>>

\* The timer buildAPK set when the build completed fires: fs.unlink of the
\* APK. The hour of the timer starts at completedAt, after createdAt, so the
\* record is older than maxAge when it ends.
Timer(b) ==
  /\ b \in timers
  /\ Aged(b)
  /\ timers' = timers \ {b}
  /\ artifacts' = Remove(artifacts, {b})
  /\ UNCHANGED <<schedVars, cancels, stats, expired, exec, workDirs, extracted,
                 envVars>>

PipeIds == 1..(PipeBuilds + 1)

\* The archives submitted in SpecPipeline: the built web project, the entry
\* that climbs out of the directory, the project without dist/index.html.
PipeArchives == {1, 2, Len(Archives)}

NextPipeline ==
  \/ \E c \in Submitters, a \in PipeArchives, color \in BOOLEAN :
       /\ Cardinality(Issued) < PipeBuilds
       /\ PSubmit(c, a, color)
       /\ UNCHANGED <<last, authVars>>
  \/ \E b \in PipeIds : PSubmitResume(b) /\ UNCHANGED <<last, authVars>>
  \/ \E c \in Callers, b \in PipeIds : PCancel(c, b) /\ UNCHANGED <<last, authVars>>
  \/ \E b \in PipeIds :
       CancelResume(b) /\ UNCHANGED <<last, authVars, pipeVars, envVars>>
  \/ \E b \in PipeIds : StageDone(b) /\ UNCHANGED <<last, authVars>>
  \/ \E b \in PipeIds : StageFail(b) /\ UNCHANGED <<last, authVars>>
  \/ \E b \in PipeIds : PFailCleanupDone(b) /\ UNCHANGED <<last, authVars>>
  \/ \E b \in PipeIds : Timer(b) /\ UNCHANGED <<last, authVars>>
  \/ Sweep /\ UNCHANGED <<last, authVars, pipeVars, envVars>>
  \/ Elapse /\ UNCHANGED <<last, authVars, pipeVars, envVars>>

SpecPipeline == Init /\ [][NextPipeline]_vars

\* The build lifecycle alone, without the retention timers (they change
\* no status and no step of buildAPK waits for them): submissions of the
\* built project and of the archive buildAPK rejects, cancels, and the
\* stages of buildAPK.
LiveIds == 1..LiveBuilds
LiveArchives == {1, 2}

NextLive ==
  \/ \E c \in Submitters, a \in LiveArchives, color \in BOOLEAN :
       /\ Cardinality(Issued) < LiveBuilds
       /\ PSubmit(c, a, color)
       /\ UNCHANGED <<last, authVars>>
  \/ \E b \in LiveIds : PSubmitResume(b) /\ UNCHANGED <<last, authVars>>
  \/ \E c \in Callers, b \in LiveIds : PCancel(c, b) /\ UNCHANGED <<last, authVars>>
  \/ \E b \in LiveIds :
       CancelResume(b) /\ UNCHANGED <<last, authVars, pipeVars, envVars>>
  \/ \E b \in LiveIds : StageDone(b) /\ UNCHANGED <<last, authVars>>
  \/ \E b \in LiveIds : StageFail(b) /\ UNCHANGED <<last, authVars>>
  \/ \E b \in LiveIds : PFailCleanupDone(b) /\ UNCHANGED <<last, authVars>>

\* The steps that do not wait for a client: the write of the counters a
\* submit handler awaits completes; the operation buildAPK awaits settles,
\* with or without an error; the removal of the directory after a failure
\* completes.
Progress ==
  \E b \in LiveIds :
    (PSubmitResume(b) \/ StageDone(b) \/ StageFail(b) \/ PFailCleanupDone(b))
      /\ UNCHANGED <<last, authVars>>

\* The event loop serves a pending completion, and every external operation
\* terminates.
SpecLive == Init /\ [][NextLive]_vars /\ WF_vars(Progress)

\* ------------------------------------------------ every kind of archive

\* One build of each archive: the submission and the stages of buildAPK
\* with their failures.
ExtractIds == 1..ExtractBuilds

NextExtract ==
  \/ \E c \in Submitters, a \in ArchiveIds, color \in BOOLEAN :
       /\ Cardinality(Issued) < ExtractBuilds
       /\ PSubmit(c, a, color)
       /\ UNCHANGED <<last, authVars>>
  \/ \E b \in ExtractIds : PSubmitResume(b) /\ UNCHANGED <<last, authVars>>
  \/ \E b \in ExtractIds : StageDone(b) /\ UNCHANGED <<last, authVars>>
  \/ \E b \in ExtractIds : StageFail(b) /\ UNCHANGED <<last, authVars>>
  \/ \E b \in ExtractIds : PFailCleanupDone(b) /\ UNCHANGED <<last, authVars>>

SpecExtract == Init /\ [][NextExtract]_vars

\* ------------------------------------------------ the time of a build

\* The `timeout` options of the execAsync calls, in milliseconds, and
\* BUILD_TIMEOUT_MS, which buildAPK passes to gradle.
NPM_INSTALL_TIMEOUT == 180000
CAP_ADD_TIMEOUT == 180000
CAP_SYNC_TIMEOUT == 120000
BUILD_TIMEOUT == 600000

\* No `timeout` option: exec never kills the child, and an operation of
\* fs has no limit.
NoLimit == 0 - 1

StageLimit(name) ==
  CASE name = "npmInstall" -> NPM_INSTALL_TIMEOUT
    [] name = "capAdd" -> CAP_ADD_TIMEOUT
    [] name = "capSync" -> CAP_SYNC_TIMEOUT
    [] name = "gradle" -> BUILD_TIMEOUT
    [] OTHER -> NoLimit

\* How long an await may take, in milliseconds.
Durations == {1000, 119000, 179000, 599000}

DeadlineIds == 1..DeadlineBuilds

InitDeadline ==
  /\ builds = << >>
  /\ userBuildCounts = [u \in Callers |-> 0]
  /\ queue = << >>
  /\ running = 0
  /\ tasks = << >>
  /\ addStamp = << >>
  /\ lastStamp = 0
  /\ cancels = {}
  /\ stats = [totalBuilds |-> 0, cancelledBuilds |-> 0,
                 successfulBuilds |-> 0, failedBuilds |-> 0]
  /\ expired = 0
  /\ last = [act |-> "Init", elapsed |-> << >>]
  /\ InitAuthVars
  /\ InitPipeVars
  /\ InitEnvVars

\* The await build b stands at took d milliseconds.
Spent(b, d) ==
  [act |-> "await", elapsed |-> Put(last.elapsed, b, last.elapsed[b] + d)]

\* The await settles after d milliseconds, within the limit of its stage.
TimedStageDone(b, d) ==
  /\ StageDone(b)
  /\ StageLimit(Stages[exec[b].stage].name) # NoLimit
       => d <= StageLimit(Stages[exec[b].stage].name)
  /\ last' = Spent(b, d)

\* The await rejects after d milliseconds: the operation failed.
TimedStageFail(b, d) ==
  /\ StageFail(b)
  /\ StageLimit(Stages[exec[b].stage].name) # NoLimit
       => d <= StageLimit(Stages[exec[b].stage].name)
  /\ last' = Spent(b, d)

\* The child process is still running when the `timeout` of its exec call
\* ends: exec kills it and the await rejects.
StageTimeout(b) ==
  /\ b \in Issued
  /\ tasks[b].pc = "running"
  /\ StageLimit(Stages[exec[b].stage].name) # NoLimit
  /\ StageFail(b)
  /\ last' = Spent(b, StageLimit(Stages[exec[b].stage].name))

NextDeadline ==
  \/ \E c \in Submitters :
       /\ Cardinality(Issued) < DeadlineBuilds
       /\ PSubmit(c, 1, FALSE)
       /\ last' = [act |-> "Submit",
                   elapsed |-> Put(last.elapsed, Cardinality(Issued) + 1, 0)]
       /\ UNCHANGED authVars
  \/ \E b \in DeadlineIds : PSubmitResume(b) /\ UNCHANGED <<last, authVars>>
  \/ \E b \in DeadlineIds, d \in Durations : TimedStageDone(b, d) /\ UNCHANGED authVars
  \/ \E b \in DeadlineIds, d \in Durations : TimedStageFail(b, d) /\ UNCHANGED authVars
  \/ \E b \in DeadlineIds : StageTimeout(b) /\ UNCHANGED authVars
  \/ \E b \in DeadlineIds : PFailCleanupDone(b) /\ UNCHANGED <<last, authVars>>

SpecDeadline == InitDeadline /\ [][NextDeadline]_vars

\* ------------------------------------------------ the age of a record

\* maxAge and the interval of the cleanup, in milliseconds.
MAX_AGE == 3600000
SWEEP_INTERVAL == 1800000

\* The clock is read in steps of ten minutes, up to ClockEnd.
Quantum == SWEEP_INTERVAL \div 3
ClockEnd == AgeSweeps * SWEEP_INTERVAL

AgeIds == 1..AgeBuilds

\* The record has no terminal status yet.
NotEnded == 0 - 1

InitAge ==
  /\ builds = << >>
  /\ userBuildCounts = [u \in Callers |-> 0]
  /\ queue = << >>
  /\ running = 0
  /\ tasks = << >>
  /\ addStamp = << >>
  /\ lastStamp = 0
  /\ cancels = {}
  /\ stats = [totalBuilds |-> 0, cancelledBuilds |-> 0,
                 successfulBuilds |-> 0, failedBuilds |-> 0]
  /\ expired = 0
  /\ last = [act |-> "clock", now |-> 0, createdAt |-> << >>, endedAt |-> << >>]
  /\ InitAuthVars
  /\ InitPipeVars
  /\ InitEnvVars

\* A step of the server at the time last.now: a record created in the step
\* has createdAt = now, and a record whose status the step changes to a
\* terminal one reached that status now.
Stamped ==
  last' = [last EXCEPT
    !.createdAt = [b \in DOMAIN tasks' |->
                     IF b \in DOMAIN tasks THEN last.createdAt[b] ELSE last.now],
    !.endedAt = [b \in DOMAIN tasks' |->
                   IF /\ b \in DOMAIN builds'
                      /\ builds'[b].status \in Terminal
                      /\ (b \notin DOMAIN builds
                            \/ builds[b].status # builds'[b].status)
                   THEN last.now
                   ELSE IF b \in DOMAIN tasks THEN last.endedAt[b]
                   ELSE NotEnded]]

\* Ten minutes pass. age > maxAge holds of the records created more than
\* maxAge before the new time.
Tick ==
  /\ last.now < ClockEnd
  /\ last' = [last EXCEPT !.now = @ + Quantum]
  /\ expired' = Cardinality({b \in Issued :
                              (last.now + Quantum) - last.createdAt[b] > MAX_AGE})
  /\ UNCHANGED <<schedVars, cancels, stats>>

\* The callback of setInterval runs every SWEEP_INTERVAL.
IntervalSweep ==
  /\ last.now > 0
  /\ last.now % SWEEP_INTERVAL = 0
  /\ Sweep
  /\ UNCHANGED last

NextAge ==
  \/ \E c \in Submitters :
       /\ Cardinality(Issued) < AgeBuilds
       /\ SubmitCode(c, "ok") = 0
       /\ Submit(c, "ok")
       /\ Stamped
       /\ UNCHANGED <<authVars, pipeVars, envVars>>
  \/ \E b \in AgeIds : SubmitResume(b) /\ Stamped /\ UNCHANGED <<authVars, pipeVars, envVars>>
  \/ \E b \in AgeIds :
       /\ b \in Present
       /\ Cancellable(builds[b].status)
       /\ Cancel(builds[b].userId, b)
       /\ Stamped
       /\ UNCHANGED <<authVars, pipeVars, envVars>>
  \/ \E b \in AgeIds : CancelResume(b) /\ Stamped /\ UNCHANGED <<authVars, pipeVars, envVars>>
  \/ \E b \in AgeIds : BuildComplete(b) /\ Stamped /\ UNCHANGED <<authVars, pipeVars, envVars>>
  \/ \E b \in AgeIds : BuildFail(b) /\ Stamped /\ UNCHANGED <<authVars, pipeVars, envVars>>
  \/ \E b \in AgeIds : FailCleanupDone(b) /\ Stamped /\ UNCHANGED <<authVars, pipeVars, envVars>>
  \/ Tick /\ UNCHANGED <<authVars, pipeVars, envVars>>
  \/ IntervalSweep /\ UNCHANGED <<authVars, pipeVars, envVars>>

SpecAge == InitAge /\ [][NextAge]_vars

\* ------------------------------------------------ the appName of a config

\* .slice(0, 50)
APP_NAME_MAX == 50

\* The characters of the class the sanitizer removes; the double quote,
\* the backslash, the backtick, the line feed, the carriage return and the
\* tab are
\* written by name.
Disallowed ==
  {"<", ">", ":", "DQUOTE", "/", "BACKSLASH", "|", "?", "*", "BACKTICK", "$", "(", ")",
   ";", "&", "LF", "CR", "TAB"}

\* White space String.prototype.trim removes.
WhiteSpace == {" ", "LF", "CR", "TAB"}

\* s.slice(0, n)
slice(s, n) == SubSeq(s, 1, IF Len(s) < n THEN Len(s) ELSE n)

IsKept(ch) == ch \notin Disallowed

\* s.replace(/[...]/g, '')
replace(s) == SelectSeq(s, IsKept)

RECURSIVE trimStart(_)
trimStart(s) ==
  IF s # << >> /\ Head(s) \in WhiteSpace THEN trimStart(Tail(s)) ELSE s

RECURSIVE trimEnd(_)
trimEnd(s) ==
  IF s # << >> /\ s[Len(s)] \in WhiteSpace
  THEN trimEnd(SubSeq(s, 1, Len(s) - 1)) ELSE s

\* s.trim()
trim(s) == trimEnd(trimStart(s))

\* config.appName.slice(0, 50).replace(...).trim()
sanitizeAppName(s) == trim(replace(slice(s, APP_NAME_MAX)))

\* What the checks of appName answer: 400 'appName is required' for an
\* empty string, 400 'appName contains only invalid characters' when
\* nothing is left of the name, else the name the build is given.
AppNameResult(s) ==
  IF s = << >> THEN [code |-> 400, error |-> "required", appName |-> << >>]
  ELSE IF sanitizeAppName(s) = << >>
  THEN [code |-> 400, error |-> "only invalid characters", appName |-> << >>]
  ELSE [code |-> 0, error |-> "-", appName |-> sanitizeAppName(s)]

\* The characters the names of the requests are made of.
NameChars == {"a", "$", ";", " "}

Repeat(ch, n) == [i \in 1..n |-> ch]

\* Names of two runs of one character each: short ones, and ones whose
\* first run ends around the fiftieth character.
RunLengths == {0, 1, 2, APP_NAME_MAX - 1, APP_NAME_MAX, APP_NAME_MAX + 1}
AppNames ==
  {Repeat(c1, n1) \o Repeat(c2, n2) :
     c1 \in NameChars, c2 \in NameChars, n1 \in RunLengths, n2 \in 0..NameTail}

InitName ==
  /\ builds = << >>
  /\ userBuildCounts = [u \in Callers |-> 0]
  /\ queue = << >>
  /\ running = 0
  /\ tasks = << >>
  /\ addStamp = << >>
  /\ lastStamp = 0
  /\ cancels = {}
  /\ stats = [totalBuilds |-> 0, cancelledBuilds |-> 0,
              successfulBuilds |-> 0, failedBuilds |-> 0]
  /\ expired = 0
  /\ InitAuthVars
  /\ InitPipeVars
  /\ InitEnvVars
  /\ \E s \in AppNames : last = [act |-> "POST /api/build", appName |-> s]

\* POST /api/build from the check of config.appName to the check of the
\* sanitized name.
Sanitize ==
  /\ last.act = "POST /api/build"
  /\ last' = [act |-> "appName", appName |-> last.appName,
              result |-> AppNameResult(last.appName)]
  /\ UNCHANGED <<schedVars, cancels, stats, expired, authVars, pipeVars, envVars>>

NextName == Sanitize

SpecName == InitName /\ [][NextName]_vars

\* ------------------------------------------------ validateNip98Auth

\* str.toLowerCase()
toLowerCase(str) ==
  [i \in 1..Len(str) |->
     IF \E j \in 1..Len(UpperCase) : UpperCase[j] = str[i]
     THEN LowerCase[CHOOSE j \in 1..Len(UpperCase) : UpperCase[j] = str[i]]
     ELSE str[i]]

\* url.replace(/\/+$/, '')
RECURSIVE StripTrailingSlashes(_)
StripTrailingSlashes(url) ==
  IF Len(url) > 0 /\ url[Len(url)] = "/"
  THEN StripTrailingSlashes(SubSeq(url, 1, Len(url) - 1))
  ELSE url

normalizeUrl(url) == toLowerCase(StripTrailingSlashes(url))

\* URLs and method names, letter by letter.
Urls ==
  { <<"s", "/", "a">>, <<"s", "/", "A">>, <<"s", "/", "a", "/">>,
    <<"s", "/", "a", "/", "/">>, <<"s", "/", "b">> }
M_POST == <<"P", "O", "S", "T">>
Methods == {M_POST, <<"p", "o", "s", "t">>, <<"G", "E", "T">>}

\* A tag the event does not carry.
NoTag == << >>

NIP98_KIND == 27235
NIP98_WINDOW == 60

\* created_at of the events, in seconds relative to the server clock.
Offsets == {0 - 61, 0 - 60, 0, 60, 61}

\* The events a header may carry. `complete` tells that id, pubkey, sig, kind
\* and tags are all present, sigOK what verifyEvent of nostr-tools answers.
Events ==
  [complete : BOOLEAN, kind : {NIP98_KIND, 1}, offset : Offsets,
   u : Urls \cup {NoTag}, method : Methods \cup {NoTag}, sigOK : BOOLEAN]

\* The Authorization headers: absent, of another scheme, "Nostr " followed
\* by text that is not the base64 of a JSON text, or by an event.
Headers ==
  {[scheme |-> "none"], [scheme |-> "Basic"], [scheme |-> "Nostr", decodes |-> FALSE]}
    \cup {[scheme |-> "Nostr", decodes |-> TRUE, event |-> e] : e \in Events}

Abs(n) == IF n < 0 THEN 0 - n ELSE n

\* validateNip98Auth(authHeader, expectedUrl, expectedMethod): the error it
\* returns, "none" when it returns valid.
Nip98Error(h, expectedUrl, expectedMethod) ==
  IF h.scheme = "none" THEN "Missing Authorization header"
  ELSE IF h.scheme # "Nostr" THEN "Invalid authorization scheme"
  ELSE IF ~h.decodes THEN "Invalid base64-encoded event"
  ELSE IF ~h.event.complete THEN "Invalid event structure"
  ELSE IF h.event.kind # NIP98_KIND THEN "Invalid event kind"
  ELSE IF Abs(h.event.offset) > NIP98_WINDOW THEN "Event timestamp too old/new"
  ELSE IF h.event.u = NoTag THEN "Missing u tag"
  ELSE IF h.event.method = NoTag THEN "Missing method tag"
  ELSE IF normalizeUrl(h.event.u) # normalizeUrl(expectedUrl) THEN "URL mismatch"
  ELSE IF toUpperCase(h.event.method) # toUpperCase(expectedMethod)
       THEN "Method mismatch"
  ELSE IF ~h.event.sigOK THEN "Invalid event signature"
  ELSE "none"

validateNip98Auth(h, expectedUrl, expectedMethod) ==
  [valid |-> Nip98Error(h, expectedUrl, expectedMethod) = "none",
   error |-> Nip98Error(h, expectedUrl, expectedMethod)]

\* A POST /api/auth request has arrived: its Authorization header and its
\* URL, `${req.protocol}://${req.get('host')}${req.originalUrl}`.
InitNip98 ==
  /\ builds = << >>
  /\ userBuildCounts = [u \in Callers |-> 0]
  /\ queue = << >>
  /\ running = 0
  /\ tasks = << >>
  /\ addStamp = << >>
  /\ lastStamp = 0
  /\ cancels = {}
  /\ stats = [totalBuilds |-> 0, cancelledBuilds |-> 0,
                 successfulBuilds |-> 0, failedBuilds |-> 0]
  /\ expired = 0
  /\ InitAuthVars
  /\ InitPipeVars
  /\ InitEnvVars
  /\ \E h \in Headers, fullUrl \in Urls :
       last = [act |-> "POST /api/auth", header |-> h, url |-> fullUrl]

\* POST /api/auth up to the answer of validateNip98Auth: the method is
\* 'POST'.
Validate ==
  /\ last.act = "POST /api/auth"
  /\ last' = [act |-> "validateNip98Auth", header |-> last.header,
              url |-> last.url, method |-> M_POST,
              result |-> validateNip98Auth(last.header, last.url, M_POST)]
  /\ UNCHANGED <<schedVars, cancels, stats, expired, authVars, pipeVars, envVars>>

NextNip98 == Validate

SpecNip98 == InitNip98 /\ [][NextNip98]_vars

\* ------------------------------------------ the artifacts across restarts

\* The process stops and start() runs again. The registry, the queue, the
\* counts and the pending timers are gone with the process; the closures of
\* the tasks take no more steps. initStats loads the counters of the last
\* write of the stats file that landed, or leaves them at 0 when the file
\* cannot be read. The directories and the files in OUTPUT_DIR stay, but
\* for the APK files start() finds older than maxAge (mtime is taken as
\* old when the build's createdAt is). No token is exchanged in SpecRetain,
\* so initAuth loads what the process held.
Startup ==
  /\ builds' = << >>
  /\ userBuildCounts' = [u \in Callers |-> 0]
  /\ queue' = << >>
  /\ running' = 0
  /\ tasks' = [b \in Issued |-> [tasks[b] EXCEPT !.pc = "done"]]
  /\ addStamp' = << >>
  /\ lastStamp' = 0
  /\ cancels' = {}
  /\ \E t \in 0..stats.totalBuilds, c \in 0..stats.cancelledBuilds :
       stats' = [totalBuilds |-> t, cancelledBuilds |-> c,
                 successfulBuilds |-> 0, failedBuilds |-> 0]
  /\ exec' = << >>
  /\ timers' = {}
  /\ artifacts' = Remove(artifacts, {b \in DOMAIN artifacts : Aged(b)})
  /\ spawned' = NoSpawn
  /\ UNCHANGED <<expired, workDirs, extracted, processEnv, authVars>>

RetainIds == 1..RetainBuilds

\* Submissions of the built project, the stages of buildAPK, the deletion
\* timer, the passing of time and restarts of the process.
NextRetain ==
  \/ \E c \in Submitters :
       /\ Cardinality(Issued) < RetainBuilds
       /\ PSubmit(c, 1, FALSE)
       /\ UNCHANGED <<last, authVars>>
  \/ \E b \in RetainIds : PSubmitResume(b) /\ UNCHANGED <<last, authVars>>
  \/ \E b \in RetainIds : StageDone(b) /\ UNCHANGED <<last, authVars>>
  \/ \E b \in RetainIds : StageFail(b) /\ UNCHANGED <<last, authVars>>
  \/ \E b \in RetainIds : PFailCleanupDone(b) /\ UNCHANGED <<last, authVars>>
  \/ \E b \in RetainIds : Timer(b) /\ UNCHANGED <<last, authVars>>
  \/ Elapse /\ UNCHANGED <<last, authVars, pipeVars, envVars>>
  \/ Startup /\ UNCHANGED last

\* What happens without a client or an operator: awaited operations
\* settle, a due timer fires, time passes. A restart is not among them.
RetainProgress ==
  \/ \E b \in RetainIds :
       (PSubmitResume(b) \/ StageDone(b) \/ StageFail(b) \/ PFailCleanupDone(b)
          \/ Timer(b)) /\ UNCHANGED <<last, authVars>>
  \/ Elapse /\ UNCHANGED <<last, authVars, pipeVars, envVars>>

SpecRetain == Init /\ [][NextRetain]_vars /\ WF_vars(RetainProgress)

\* ------------------------------------------------ the stats file

StatsIds == 1..StatsBuilds

\* The file holds what initStats wrote at the first start; no writeFile is
\* under way.
InitStats ==
  /\ builds = << >>
  /\ userBuildCounts = [u \in Callers |-> 0]
  /\ queue = << >>
  /\ running = 0
  /\ tasks = << >>
  /\ addStamp = << >>
  /\ lastStamp = 0
  /\ cancels = {}
  /\ stats = [totalBuilds |-> 0, cancelledBuilds |-> 0,
              successfulBuilds |-> 0, failedBuilds |-> 0]
  /\ expired = 0
  /\ last = [act |-> "initStats", file |-> stats, writes |-> << >>,
             before |-> stats]
  /\ InitAuthVars
  /\ InitPipeVars
  /\ InitEnvVars

\* saveStats called by the handler `kind` of build b: fs.writeFile is
\* handed JSON.stringify(stats), the counters as they are after the
\* increment of this step.
saveStats(kind, b) ==
  last' = [act |-> kind, file |-> last.file,
           writes |-> Put(last.writes, <<kind, b>>, stats'),
           before |-> last.file]

\* The writeFile of the saveStats call of handler `kind` of build b
\* completes: the file holds the text the call was handed.
StatsWritten(kind, b) ==
  /\ <<kind, b>> \in DOMAIN last.writes
  /\ last' = [last EXCEPT !.act = "written",
                          !.file = last.writes[<<kind, b>>],
                          !.writes = Remove(@, {<<kind, b>>})]

\* The process dies and is started again: the writes under way are lost
\* and initStats loads the file.
Crash ==
  /\ Startup
  /\ stats' = last.file
  /\ last' = [last EXCEPT !.act = "initStats", !.writes = << >>]

NextStats ==
  \/ \E c \in Submitters :
       /\ Cardinality(Issued) < StatsBuilds
       /\ SubmitCode(c, "ok") = 0
       /\ Submit(c, "ok")
       /\ saveStats("submit", Cardinality(Issued) + 1)
       /\ UNCHANGED <<authVars, pipeVars, envVars>>
  \/ \E b \in StatsIds :
       /\ SubmitResume(b)
       /\ StatsWritten("submit", b)
       /\ UNCHANGED <<authVars, pipeVars, envVars>>
  \/ \E b \in StatsIds :
       /\ b \in Present
       /\ Cancellable(builds[b].status)
       /\ Cancel(builds[b].userId, b)
       /\ saveStats("cancel", b)
       /\ UNCHANGED <<authVars, pipeVars, envVars>>
  \/ \E b \in StatsIds :
       /\ CancelResume(b)
       /\ StatsWritten("cancel", b)
       /\ UNCHANGED <<authVars, pipeVars, envVars>>
  \/ \E b \in StatsIds : BuildComplete(b) /\ UNCHANGED <<last, authVars, pipeVars, envVars>>
  \/ \E b \in StatsIds : BuildFail(b) /\ UNCHANGED <<last, authVars, pipeVars, envVars>>
  \/ \E b \in StatsIds : FailCleanupDone(b) /\ UNCHANGED <<last, authVars, pipeVars, envVars>>
  \/ Crash

SpecStats == InitStats /\ [][NextStats]_vars

\* ------------------------------------------------------------- Next

\* The model admits at most `limit` submissions; refusals are not limited.
MayAdmit(c, inp, limit) ==
  SubmitCode(c, inp) # 0 \/ Cardinality(Issued) < limit

\* The service, without the read-only handlers (they change nothing).
Next ==
  \/ \E c \in Submitters, inp \in SubmitInputs :
       MayAdmit(c, inp, MaxBuilds) /\ Submit(c, inp) /\ UNCHANGED <<last, authVars, pipeVars, envVars>>
  \/ \E b \in BuildIds : SubmitResume(b) /\ UNCHANGED <<last, authVars, pipeVars, envVars>>
  \/ \E c \in Callers, b \in BuildIds : Cancel(c, b) /\ UNCHANGED <<last, authVars, pipeVars, envVars>>
  \/ \E b \in BuildIds : CancelResume(b) /\ UNCHANGED <<last, authVars, pipeVars, envVars>>
  \/ \E b \in BuildIds : BuildComplete(b) /\ UNCHANGED <<last, authVars, pipeVars, envVars>>
  \/ \E b \in BuildIds : BuildFail(b) /\ UNCHANGED <<last, authVars, pipeVars, envVars>>
  \/ \E b \in BuildIds : FailCleanupDone(b) /\ UNCHANGED <<last, authVars, pipeVars, envVars>>
  \/ Sweep /\ UNCHANGED <<last, authVars, pipeVars, envVars>>
  \/ Elapse /\ UNCHANGED <<last, authVars, pipeVars, envVars>>

Spec == Init /\ [][Next]_vars

\* The queue alone: accepted submissions, cancels by the owner, and the
\* ends of the builds.
QueueIds == 1..QueueBuilds

NextQueue ==
  \/ \E c \in Submitters :
       /\ Cardinality(Issued) < QueueBuilds
       /\ SubmitCode(c, "ok") = 0
       /\ Submit(c, "ok")
       /\ UNCHANGED <<last, authVars, pipeVars, envVars>>
  \/ \E b \in QueueIds : SubmitResume(b) /\ UNCHANGED <<last, authVars, pipeVars, envVars>>
  \/ \E b \in QueueIds :
       /\ b \in Present
       /\ Cancellable(builds[b].status)
       /\ Cancel(builds[b].userId, b)
       /\ UNCHANGED <<last, authVars, pipeVars, envVars>>
  \/ \E b \in QueueIds : CancelResume(b) /\ UNCHANGED <<last, authVars, pipeVars, envVars>>
  \/ \E b \in QueueIds : BuildComplete(b) /\ UNCHANGED <<last, authVars, pipeVars, envVars>>
  \/ \E b \in QueueIds : BuildFail(b) /\ UNCHANGED <<last, authVars, pipeVars, envVars>>
  \/ \E b \in QueueIds : FailCleanupDone(b) /\ UNCHANGED <<last, authVars, pipeVars, envVars>>

\* What happens without a client: the write a submit handler awaits
\* completes, a running build ends or fails, the removal of the directory
\* of a failed build completes.
Completion ==
  \E b \in QueueIds :
    (SubmitResume(b) \/ BuildComplete(b) \/ BuildFail(b) \/ FailCleanupDone(b))
      /\ UNCHANGED <<last, authVars, pipeVars, envVars>>

\* The queue with an event loop that serves pending completions and with
\* builds that all terminate.
SpecQueue == Init /\ [][NextQueue]_vars /\ WF_vars(Completion)

\* The service with every handler, each step leaving in `last` the request
\* it served and the answer it gave.
AccessIds == 1..(AccessBuilds + 1)

NextAccess ==
  \/ \E c \in AccessSubmitters, inp \in SubmitInputs :
       /\ MayAdmit(c, inp, AccessBuilds)
       /\ Submit(c, inp)
       /\ last' = SubmitReply(c, inp)
       /\ UNCHANGED <<authVars, pipeVars, envVars>>
  \/ \E b \in AccessIds :
       SubmitResume(b) /\ last' = SubmitResumeReply(b) /\ UNCHANGED <<authVars, pipeVars, envVars>>
  \/ \E c \in Callers, b \in AccessIds :
       Cancel(c, b) /\ last' = CancelReply(c, b) /\ UNCHANGED <<authVars, pipeVars, envVars>>
  \/ \E b \in AccessIds :
       CancelResume(b) /\ last' = CancelResumeReply(b) /\ UNCHANGED <<authVars, pipeVars, envVars>>
  \/ \E c \in Callers, b \in AccessIds : Status(c, b) /\ UNCHANGED <<authVars, pipeVars, envVars>>
  \/ \E c \in Callers, b \in AccessIds : Logs(c, b) /\ UNCHANGED <<authVars, pipeVars, envVars>>
  \/ \E c \in Callers, b \in AccessIds : Download(c, b) /\ UNCHANGED <<authVars, pipeVars, envVars>>
  \/ \E c \in Callers : List(c) /\ UNCHANGED <<authVars, pipeVars, envVars>>
  \/ \E b \in AccessIds :
       BuildComplete(b) /\ last' = NoReq("BuildComplete") /\ UNCHANGED <<authVars, pipeVars, envVars>>
  \/ \E b \in AccessIds :
       BuildFail(b) /\ last' = NoReq("BuildFail") /\ UNCHANGED <<authVars, pipeVars, envVars>>
  \/ \E b \in AccessIds :
       FailCleanupDone(b) /\ last' = NoReq("FailCleanupDone") /\ UNCHANGED <<authVars, pipeVars, envVars>>
  \/ Sweep /\ last' = NoReq("Sweep") /\ UNCHANGED <<authVars, pipeVars, envVars>>
  \/ Elapse /\ last' = NoReq("Elapse") /\ UNCHANGED <<authVars, pipeVars, envVars>>

SpecAccess == Init /\ [][NextAccess]_vars

\* POST /api/build by a Principal and by Admin, each submission leaving in
\* `last` what it was answered, with the steps that fill and drain the queue.
SubmitIds == 1..(SubmitBuilds + 1)

NextSubmit ==
  \/ \E c \in AccessSubmitters, inp \in SubmitInputs :
       /\ MayAdmit(c, inp, SubmitBuilds)
       /\ Submit(c, inp)
       /\ last' = SubmitReply(c, inp)
       /\ UNCHANGED <<authVars, pipeVars, envVars>>
  \/ \E b \in SubmitIds :
       SubmitResume(b) /\ last' = SubmitResumeReply(b) /\ UNCHANGED <<authVars, pipeVars, envVars>>
  \/ \E b \in SubmitIds :
       Cancel(builds[b].userId, b) /\ b \in Present /\ last' = NoReq("Cancel")
         /\ UNCHANGED <<authVars, pipeVars, envVars>>
  \/ \E b \in SubmitIds :
       CancelResume(b) /\ last' = NoReq("CancelResume") /\ UNCHANGED <<authVars, pipeVars, envVars>>
  \/ \E b \in SubmitIds :
       BuildComplete(b) /\ last' = NoReq("BuildComplete") /\ UNCHANGED <<authVars, pipeVars, envVars>>
  \/ \E b \in SubmitIds :
       BuildFail(b) /\ last' = NoReq("BuildFail") /\ UNCHANGED <<authVars, pipeVars, envVars>>
  \/ \E b \in SubmitIds :
       FailCleanupDone(b) /\ last' = NoReq("FailCleanupDone") /\ UNCHANGED <<authVars, pipeVars, envVars>>

SpecSubmit == Init /\ [][NextSubmit]_vars

\* The subprocesses of buildAPK started under every set of variables
\* process.env may hold.
InitEnv ==
  /\ InitBuildVars
  /\ InitAuthVars
  /\ InitPipeVars
  /\ processEnv \in SUBSET EnvNames
  /\ spawned = NoSpawn

\* execAsync(cmd, options)
Spawn(cmd) ==
  /\ spawned' = [cmd |-> cmd, env |-> SpawnEnv(cmd, processEnv)]
  /\ UNCHANGED <<schedVars, cancels, stats, expired, last, authVars, pipeVars,
                 processEnv>>

NextEnv == \E cmd \in Commands : Spawn(cmd)

SpecEnv == InitEnv /\ [][NextEnv]_vars

\* GET /api/builds on a registry of up to ListMax finished builds, the first
\* k of them submitted by one Principal and the rest by another.
FinishedBy(n, k) ==
  [b \in 1..n |-> [userId |-> IF b <= k THEN "u1" ELSE "u2", status |-> "complete"]]

InitList ==
  /\ \E n \in 0..ListMax : \E k \in 0..n :
       /\ builds = FinishedBy(n, k)
       /\ tasks = [b \in 1..n |-> [userId |-> FinishedBy(n, k)[b].userId, pc |-> "done"]]
       /\ stats = [totalBuilds |-> n, cancelledBuilds |-> 0,
                 successfulBuilds |-> 0, failedBuilds |-> 0]
       /\ lastStamp = n
  /\ userBuildCounts = [u \in Callers |-> 0]
  /\ queue = << >>
  /\ running = 0
  /\ addStamp = << >>
  /\ cancels = {}
  /\ expired = 0
  /\ last = NoReq("Init")
  /\ InitAuthVars
  /\ InitPipeVars
  /\ InitEnvVars

NextList == \E c \in Callers : List(c) /\ UNCHANGED <<authVars, pipeVars, envVars>>

SpecList == InitList /\ [][NextList]_vars

\* ------------------------------------------------------------ claims

\* The tasks process() started whose promise has not settled yet.
InFlight == {b \in Issued : tasks[b].pc \in {"running", "failCleanup"}}

\* C1: in every reachable state the running counter is the number of tasks
\* dispatched and not yet finished, it is never negative and never more
\* than maxConcurrent.
C1_RunningWithinLimit ==
  /\ running >= 0
  /\ running <= MAX_CONCURRENT
  /\ running = Cardinality(InFlight)

\* C1 witness: the queue is saturated with a task waiting behind it, after
\* an earlier task ran to its end.
C1_Witness ==
  /\ running = MAX_CONCURRENT
  /\ Len(queue) > 0
  /\ \E b \in Issued : tasks[b].pc = "done"

\* C2: the pending list is served in insertion order: the list is ordered by
\* the number of the add() call, and no pending task was added before the
\* task process() started last, so a task added earlier is never dispatched
\* after one added later.
C2_Fifo ==
  /\ \A b \in DOMAIN addStamp : addStamp[b] > lastStamp
  /\ DOMAIN addStamp = {queue[i] : i \in 1..Len(queue)}
  /\ \A i, j \in 1..Len(queue) : i < j => addStamp[queue[i]] < addStamp[queue[j]]

\* C2 witness: two tasks wait in a saturated queue, in the order of their
\* add() calls, while the task dispatched before them runs.
C2_Witness ==
  /\ running = MAX_CONCURRENT
  /\ Len(queue) >= 2
  /\ lastStamp >= 1
  /\ addStamp[queue[1]] < addStamp[queue[2]]

\* C3 (as claimed): every Principal owns at most MAX_BUILDS_PER_USER records
\* whose status is queued or building.
C3_AtMostKNonTerminal ==
  \A u \in Principals : NonTerminal(builds, u) <= MAX_BUILDS_PER_USER

\* C4 (as claimed): a build whose status is cancelled never becomes building.
C4_CancelledNeverBuilds ==
  [][\A b \in DOMAIN builds :
       (builds[b].status = "cancelled" /\ b \in DOMAIN builds')
         => builds'[b].status # "building"]_vars

\* The edges of the status graph.
StatusEdges ==
  {<<"queued", "building">>, <<"building", "complete">>,
   <<"building", "failed">>, <<"queued", "cancelled">>}

\* C5 (as claimed): the status of a record changes only along queued ->
\* building, building -> complete, building -> failed, queued -> cancelled.
C5_StatusAlongEdges ==
  [][\A b \in (DOMAIN builds) \cap (DOMAIN builds') :
       \/ builds'[b].status = builds[b].status
       \/ <<builds[b].status, builds'[b].status>> \in StatusEdges]_vars

\* C6: a cancel request on a record whose status is building, complete,
\* failed or cancelled is answered with an error (400 to the owner and to
\* Admin) and changes neither the registry, the active-build counts, the
\* queue nor the counters.
C6_CancelRejectedOutsideQueued ==
  [][(/\ last'.act = "Cancel"
      /\ last'.build \in DOMAIN builds
      /\ builds[last'.build].status \in {"building", "complete", "failed", "cancelled"})
       => /\ last'.code \in {400, 403}
          /\ checkBuildOwnership(builds, last'.caller, last'.build) = 0
               => last'.code = 400
          /\ UNCHANGED <<schedVars, cancels, stats, expired>>]_vars

\* C6 witness: the owner or Admin asked to cancel a build in progress and
\* was answered 400.
C6_Witness ==
  /\ last.act = "Cancel"
  /\ last.code = 400
  /\ last.build \in DOMAIN builds
  /\ builds[last.build].status = "building"

\* C7 (as claimed): while a submission of an identity is suspended at its
\* await with its record queued, a second submission of that identity is
\* admitted only if the identity has fewer than MAX_BUILDS_PER_USER records
\* queued or building.
C7_NoOverlappingOverAdmission ==
  [][\A u \in Callers :
       (/\ DOMAIN tasks' # DOMAIN tasks
        /\ tasks'[Cardinality(Issued) + 1].userId = u
        /\ \E b \in Issued \cap DOMAIN builds :
             /\ tasks[b].userId = u
             /\ tasks[b].pc = "awaitStats"
             /\ builds[b].status = "queued")
         => NonTerminal(builds, u) < MAX_BUILDS_PER_USER]_vars

\* C8 (as claimed): the pending list never holds more than MAX_QUEUE_SIZE
\* tasks.
C8_QueueWithinLimit == Len(queue) <= MAX_QUEUE_SIZE

\* C9 (as claimed): for every identity the active-build count equals the
\* number of its records whose status is queued or building.
C9_CountIsNonTerminal ==
  \A u \in Callers : userBuildCounts[u] = NonTerminal(builds, u)

\* C10: a status, logs, download or cancel request on a record by a caller
\* that is neither its owner nor Admin is answered 403 with no field of the
\* record, and changes neither the record nor any counter.
C10_NonOwnerDenied ==
  [][(/\ last'.act \in {"Status", "Logs", "Download", "Cancel"}
      /\ last'.build \in DOMAIN builds
      /\ last'.caller # Admin
      /\ builds[last'.build].userId # last'.caller)
       => /\ last'.code = 403
          /\ last'.status = "-"
          /\ last'.n = 0
          /\ UNCHANGED <<schedVars, cancels, stats, expired>>]_vars

\* C10 witness: a caller that does not own a queued build asked to cancel
\* it and was answered 403.
C10_Witness ==
  /\ last.act = "Cancel"
  /\ last.code = 403
  /\ last.build \in DOMAIN builds
  /\ builds[last.build].status = "queued"
  /\ builds[last.build].userId # last.caller

\* C11 (as claimed): GET /api/builds answers a Principal with records it
\* owns only, and Admin with every record in the registry.
C11_ListByOwnership ==
  last.act = "List" =>
    /\ last.caller # Admin =>
         \A b \in last.ids : b \in DOMAIN builds /\ builds[b].userId = last.caller
    /\ last.caller = Admin => last.ids = DOMAIN builds

\* C12 (as claimed): between two revocations a Principal is answered one
\* token only, whatever the number of its exchanges and however they
\* overlap.
C12_OneTokenBetweenRevocations ==
  \A p \in Principals : Cardinality(given[p]) <= 1

\* C13: after every step a token revoked since the process started is
\* rejected by validateApiKey, and the first exchange a Principal makes after
\* it revoked answers isNew with a token that is none of those it revoked.
C13_RevokedStaysRejected ==
  [][/\ \A p \in Principals : \A t \in revoked'[p] :
          ~validateApiKey(apiKeyToPubkey', t).valid
     /\ \A p \in awaitingMint :
          (last'.act = "Exchange" /\ last'.caller = p)
            => last'.status = "new" /\ last'.n \notin revoked[p]]_vars

\* C13 witness: a Principal revoked its token, made an exchange and holds a
\* new token, while the revoked one is rejected.
C13_Witness ==
  \E p \in Principals :
    /\ revoked[p] # {}
    /\ apiKeys[p] # 0
    /\ apiKeys[p] \notin revoked[p]
    /\ last.act = "ExchangeReply" /\ last.caller = p /\ last.status = "new"

\* C15: a submission that is refused (400, 429 or 503) leaves the registry,
\* the active-build counts, the queue and the counters as they were.
C15_RefusedSubmitChangesNothing ==
  [][(last'.act = "Submit" /\ last'.code \in {400, 429, 503})
       => UNCHANGED <<schedVars, cancels, stats, expired>>]_vars

\* C15 witness: a submission of a Principal that has a build running was
\* refused for the identity's limit.
C15_Witness ==
  /\ last.act = "Submit"
  /\ last.code = 429
  /\ last.caller \in Principals
  /\ last.n = MAX_BUILDS_PER_USER
  /\ running >= 1

\* C16: a download is answered with the file (200) only when the record's
\* status is complete; on a record that is queued, building, failed or
\* cancelled it is answered with an error and no file.
C16_DownloadOnlyWhenComplete ==
  [][(last'.act = "Download" /\ last'.build \in DOMAIN builds)
       => /\ last'.code = 200 => builds[last'.build].status = "complete"
          /\ builds[last'.build].status # "complete" => last'.code \in {400, 403}]_vars

\* C16 witness: the owner asked for the artifact of a failed build and was
\* answered 400.
C16_Witness ==
  /\ last.act = "Download"
  /\ last.code = 400
  /\ last.build \in DOMAIN builds
  /\ builds[last.build].status = "failed"
  /\ builds[last.build].userId = last.caller

\* C19 (as claimed): a submission with the Admin key is never refused for
\* the number of active builds of the Admin identity.
C19_AdminNeverOverQuota ==
  ~(last.act = "Submit" /\ last.caller = Admin /\ last.code = 429)

\* C20 (as claimed): the environment of every subprocess the executor
\* starts holds no variable whose upper-cased name includes an entry of the
\* deny list.
C20_NoSecretInSubprocessEnv ==
  \A key \in spawned.env : ~Denied(key)

\* An entry of the archive resolves to a path outside the build directory.
HasEscapingEntry(entries) ==
  \E i \in 1..Len(entries) :
    ~InsideBuildDir(Normalize(buildDir, entries[i].entryName))

\* C14 (as claimed): no build record is created, and nothing is enqueued,
\* for an archive with an entry that resolves outside the build directory.
C14_EscapingArchiveRejected ==
  \A b \in DOMAIN exec : ~HasEscapingEntry(Archives[exec[b].archive])

\* C17 (as claimed): the artifact of every record in the registry whose
\* status is complete is present in the output directory.
C17_CompleteHasArtifact ==
  \A b \in DOMAIN builds : builds[b].status = "complete" => b \in DOMAIN artifacts

\* Build b was admitted and has not finished.
Admitted(b) == b \in DOMAIN builds /\ builds[b].status \notin Terminal

\* The record of build b is in a terminal status, or was and is swept.
Terminated(b) == b \notin DOMAIN builds \/ builds[b].status \in Terminal

\* No cancel of build b succeeded and no await of its buildAPK threw.
Undisturbed(b) == b \in DOMAIN exec => ~exec[b].cancelled /\ ~exec[b].failed

\* The record of build b is complete with progress 100 and the size of its
\* artifact.
CompleteWithArtifact(b) ==
  /\ b \in DOMAIN builds
  /\ builds[b].status = "complete"
  /\ exec[b].progress = 100
  /\ exec[b].apkPath
  /\ exec[b].apkSize = ApkSize(b)

\* C18: every admitted build eventually is in a terminal status; a build
\* that no client cancels and whose stages all succeed eventually is
\* complete with progress 100 and its artifact size, its status having gone
\* from queued to building and from building to complete.
C18_AdmittedBuildTerminates ==
  /\ \A b \in LiveIds : Admitted(b) ~> Terminated(b)
  /\ \A b \in LiveIds :
       Admitted(b) ~> (CompleteWithArtifact(b) \/ ~Undisturbed(b))
  /\ [][\A b \in (DOMAIN builds) \cap (DOMAIN builds') :
          Undisturbed(b)' =>
            /\ (builds'[b].status = "building" /\ builds[b].status # "building")
                  => builds[b].status = "queued"
            /\ (builds'[b].status = "complete" /\ builds[b].status # "complete")
                  => builds[b].status = "building" /\ CompleteWithArtifact(b)'
       ]_vars

\* C18 witness: a build that was never cancelled is complete with progress
\* 100, its artifact in the output directory.
C18_Witness ==
  \E b \in DOMAIN builds :
    /\ CompleteWithArtifact(b)
    /\ Undisturbed(b)
    /\ b \in DOMAIN artifacts

\* C21: a step removes from the registry only records that are in a terminal
\* status and older than maxAge; a record that is queued or building is
\* never removed, however old.
C21_SweepRemovesOnlyAgedTerminal ==
  [][\A b \in (DOMAIN builds) \ (DOMAIN builds') :
       builds[b].status \in Terminal /\ Aged(b)]_vars

\* C21 witness: the cleanup has removed a record while a record older than
\* maxAge that is queued or building is still in the registry.
C21_Witness ==
  /\ \E b \in Issued : b \notin DOMAIN builds
  /\ \E b \in DOMAIN builds : Aged(b) /\ builds[b].status \in NonTerminalStatus

\* C22 (as claimed): every artifact file in the output directory is
\* eventually deleted.
C22_ArtifactEventuallyDeleted ==
  \A b \in RetainIds : (b \in DOMAIN artifacts) ~> (b \notin DOMAIN artifacts)

\* C23 (as claimed): validateNip98Auth answers valid only for an event whose
\* created_at is within 60 seconds of the server clock, whose method tag is
\* the request method and whose u tag is the request URL, character by
\* character.
C23_AcceptsOnlyExactMatch ==
  (last.act = "validateNip98Auth" /\ last.result.valid) =>
    /\ Abs(last.header.event.offset) <= NIP98_WINDOW
    /\ last.header.event.method = last.method
    /\ last.header.event.u = last.url

\* Where the closure of a build stands, in the order of the code: the
\* submit handler before add(), the pending list, buildAPK, the catch block
\* of buildAPK, the end.
TaskRank(pc) ==
  CASE pc = "awaitStats" -> 0
    [] pc = "pending" -> 1
    [] pc = "running" -> 2
    [] pc = "failCleanup" -> 3
    [] pc = "done" -> 4

\* C24: buildAPK of a build id starts only from add() or from the pending
\* list and the task of a build never goes back to an earlier place, so buildAPK starts
\* at most once for the id and never runs twice at a time; a record that is
\* failed stays failed.
C24_BuildRunsAtMostOnce ==
  [][\A b \in Issued :
       /\ TaskRank(tasks'[b].pc) >= TaskRank(tasks[b].pc)
       /\ (tasks'[b].pc = "running" /\ tasks[b].pc # "running")
            => tasks[b].pc \in {"awaitStats", "pending"}
       /\ (b \in DOMAIN builds /\ b \in DOMAIN builds' /\ builds[b].status = "failed")
            => builds'[b].status = "failed"]_vars

\* C24 witness: a build failed and its task ended, and the queue has
\* started the build submitted after it.
C24_Witness ==
  \E b \in DOMAIN builds :
    /\ builds[b].status = "failed"
    /\ tasks[b].pc = "done"
    /\ \E b2 \in Issued : b2 > b /\ tasks[b2].pc = "running"

\* C25 (as claimed): the task of a build whose cancel succeeded is not in
\* the pending list of the queue and is not run.
C25_CancelledTaskLeavesQueue ==
  \A b \in DOMAIN exec :
    exec[b].cancelled =>
      /\ \A i \in 1..Len(queue) : queue[i] # b
      /\ tasks[b].pc # "running"

\* C26: between the steps of the handlers and of the queue, a task waits in
\* the pending list only while every slot is taken.
C26_NoIdleSlotWithPendingTask ==
  Len(queue) > 0 => running = MAX_CONCURRENT

\* C26 witness: a task has ended in failure, the queue has dispatched
\* again, and a task waits behind the running one.
C26_Witness ==
  /\ Len(queue) > 0
  /\ running = MAX_CONCURRENT
  /\ \E b \in DOMAIN builds : builds[b].status = "failed" /\ tasks[b].pc = "done"
  /\ \E b \in Issued : tasks[b].pc = "running"

\* The task of build b was passed to add() and waits in the pending list.
Pending(b) == b \in Issued /\ tasks[b].pc = "pending"

\* C27: every task in the pending list is eventually taken out of it by
\* process(), and process() takes a task only together with every task
\* that was added before it.
C27_PendingTaskDispatched ==
  /\ \A b \in QueueIds : Pending(b) ~> ~Pending(b)
  /\ [][\A i \in 1..Len(queue) :
          tasks'[queue[i]].pc # "pending" =>
            \A j \in 1..i : tasks'[queue[j]].pc # "pending"]_vars

\* C27 witness: the task that was added second has been dispatched after
\* the first one ended, while a third task waits.
C27_Witness ==
  /\ 3 \in Issued
  /\ tasks[1].pc = "done"
  /\ tasks[2].pc = "running"
  /\ tasks[3].pc = "pending"

\* The entry is stored as a symbolic link: the file type of its Unix mode,
\* the high 16 bits of the attributes, is S_IFLNK (0120000).
IsSymlink(e) == (e.unix \div 4096) % 16 = 10

\* The entry resolves outside the build directory, is a symbolic link, or
\* is larger than 50MB.
FailsACheck(e) ==
  \/ ~InsideBuildDir(Normalize(buildDir, e.entryName))
  \/ IsSymlink(e)
  \/ e.size > MAX_ENTRY_SIZE

\* C28 (as claimed): no entry is extracted of an archive with an entry that
\* resolves outside the build directory, is a symbolic link or is larger
\* than 50MB, and the build of such an archive ends failed.
C28_NothingExtractedFromBadArchive ==
  \A b \in DOMAIN exec :
    (\E i \in 1..Len(Archives[exec[b].archive]) :
        FailsACheck(Archives[exec[b].archive][i]))
      => /\ b \notin extracted
         /\ tasks[b].pc = "done" => builds[b].status = "failed"

\* C29 (as claimed): the working directory of a build whose status is
\* failed does not exist.
C29_FailedHasNoWorkDir ==
  \A b \in DOMAIN builds : builds[b].status = "failed" => b \notin workDirs

\* C30 (as claimed): a build whose status is failed has no file in the
\* output directory and no apkPath.
C30_FailedHasNoArtifact ==
  \A b \in DOMAIN builds :
    builds[b].status = "failed" => b \notin DOMAIN artifacts /\ ~exec[b].apkPath

\* C31: when buildAPK removes the working directory of a build that has not
\* failed, the APK is in the output directory; and in the step that makes
\* a record complete the APK is there, its size is the record's apkSize,
\* apkPath is set and progress is 100.
C31_ArtifactBeforeComplete ==
  [][\A b \in (DOMAIN builds) \cap (DOMAIN builds') :
       /\ (b \in workDirs /\ b \notin workDirs' /\ builds'[b].status # "failed")
            => b \in DOMAIN artifacts
       /\ (builds'[b].status = "complete" /\ builds[b].status # "complete")
            => /\ b \in DOMAIN artifacts'
               /\ exec'[b].apkPath
               /\ exec'[b].apkSize = artifacts'[b]
               /\ exec'[b].progress = 100]_vars

\* C31 witness: a build is complete, its working directory removed, its
\* APK in the output directory with the size the record reports.
C31_Witness ==
  \E b \in DOMAIN builds :
    /\ builds[b].status = "complete"
    /\ b \notin workDirs
    /\ b \in DOMAIN artifacts
    /\ exec[b].apkSize = artifacts[b]

\* C32: the progress of a record is between 0 and 100, is 100 only when
\* the status is complete, and no step lowers it.
C32_ProgressMonotone ==
  [][\A b \in DOMAIN exec' :
       /\ exec'[b].progress \in 0..100
       /\ (exec'[b].progress = 100 /\ b \in DOMAIN builds')
            => builds'[b].status = "complete"
       /\ b \in DOMAIN exec => exec'[b].progress >= exec[b].progress]_vars

\* C32 witness: a build failed after its progress had reached 95, and the
\* record keeps that progress.
C32_Witness ==
  \E b \in DOMAIN builds :
    /\ builds[b].status = "failed"
    /\ exec[b].progress = 95

\* C33 (as claimed): a build whose awaits together took longer than
\* BUILD_TIMEOUT is not complete.
C33_OneDeadlineForTheBuild ==
  \A b \in DOMAIN builds :
    (last.act # "Init" /\ last.elapsed[b] > BUILD_TIMEOUT)
      => builds[b].status # "complete"

\* The wrapper of build b ends after buildAPK threw.
FailedTaskEnds(b) ==
  /\ b \in Issued
  /\ tasks[b].pc = "failCleanup"
  /\ tasks'[b].pc = "done"

\* C34 (as claimed): when buildAPK of a build threw, the record is failed,
\* the task ends without an error leaving it, its slot is released (left
\* free or handed to the next pending task), and the count of the owner,
\* not lowered for this build before, is lowered by one.
C34_FailureReleasesSlotAndCount ==
  [][\A b \in DOMAIN exec :
       FailedTaskEnds(b) =>
         /\ b \in DOMAIN builds' => builds'[b].status = "failed"
         /\ \/ running' = running - 1
            \/ \E b2 \in Issued \ {b} :
                 tasks[b2].pc = "pending" /\ tasks'[b2].pc = "running"
         /\ ~exec[b].cancelled
         /\ userBuildCounts'[tasks[b].userId]
              = userBuildCounts[tasks[b].userId] - 1]_vars

\* C35 (as claimed): a record the cleanup removes reached its terminal
\* status at least maxAge before.
C35_RemovedATtlAfterTerminal ==
  [][\A b \in (DOMAIN builds) \ (DOMAIN builds') :
       /\ last.endedAt[b] # NotEnded
       /\ last.now - last.endedAt[b] >= MAX_AGE]_vars

\* C36 (as claimed): every build counted as submitted is counted as
\* succeeded, failed or cancelled, or its record is queued or building.
C36_CountersAddUp ==
  stats.totalBuilds
    = stats.successfulBuilds + stats.failedBuilds + stats.cancelledBuilds
      + Cardinality({b \in DOMAIN builds : builds[b].status \in NonTerminalStatus})

\* C37 (as claimed): the counters initStats loads after a crash are not
\* lower than the counters the file held when the latest saveStats call
\* was made.
C37_CrashLosesOnlyLatestUpdate ==
  [][(last'.act = "initStats" /\ last.act # "initStats")
       => /\ stats'.totalBuilds >= last.before.totalBuilds
          /\ stats'.cancelledBuilds >= last.before.cancelledBuilds]_vars

\* A character the sanitizer keeps in the middle of a name.
HasAllowedChar(s) ==
  \E i \in 1..Len(s) : s[i] \notin Disallowed \cup WhiteSpace

\* C38 (as claimed): a name is refused as made of invalid characters only
\* if it has no allowed character, and an accepted name is not empty, has
\* at most 50 characters and none of the disallowed ones.
C38_RejectedOnlyWithoutAllowedChar ==
  last.act = "appName" =>
    /\ (last.result.code = 400 /\ last.result.error = "only invalid characters")
         => ~HasAllowedChar(last.appName)
    /\ last.result.code = 0 =>
         /\ last.result.appName # << >>
         /\ Len(last.result.appName) <= APP_NAME_MAX
         /\ \A i \in 1..Len(last.result.appName) :
              last.result.appName[i] \notin Disallowed

\* C39: the two maps of the auth module mirror each other: the token of
\* every pubkey in apiKeys maps back to that pubkey, and every token of
\* apiKeyToPubkey is the token apiKeys holds for its pubkey.
C39_AuthMapsConsistent ==
  /\ \A p \in Principals :
       apiKeys[p] # 0 =>
         /\ apiKeys[p] \in DOMAIN apiKeyToPubkey
         /\ apiKeyToPubkey[apiKeys[p]] = p
  /\ \A t \in DOMAIN apiKeyToPubkey :
       /\ apiKeyToPubkey[t] \in Principals
       /\ apiKeys[apiKeyToPubkey[t]] = t

\* C39 witness: after an exchange, a revocation and a restart, two pubkeys
\* hold a token each.
C39_Witness ==
  /\ last.act = "Restart"
  /\ Cardinality(DOMAIN apiKeyToPubkey) = 2
  /\ minted > 2
  /\ \A p \in Principals : apiKeys[p] # 0

\* C40 (as claimed): when no write of the credential file is under way, the
\* file holds the table of apiKeys, and no token revoked since the process
\* started is in it.
C40_FileEqualsMemoryWhenQuiet ==
  authWrites = {} =>
    /\ keysFile = apiKeys
    /\ \A p \in Principals : \A t \in revoked[p] :
         \A q \in Principals : keysFile[q] # t

====
